---- MODULE Spec2Model ----
(***************************************************************************)
(* A model of the per-thermostat analytical engine of thermostat_nw        *)
(* (src/thermostat_nw/core.py): construction of a Thermostat record,       *)
(* core-day-set detection, the demand fit and the metrics assembler.       *)
(*                                                                         *)
(* Series are sequences of integers; a missing sample is the value NaN.    *)
(* An hourly series that starts at midnight of day index_start holds the   *)
(* sample of hour h of day d at position d * 24 + h + 1.  Dates are        *)
(* proleptic Gregorian ordinals, as datetime.toordinal() gives them.       *)
(***************************************************************************)
EXTENDS Integers, Sequences, FiniteSets, TLC

VARIABLES raw, phase, t, call, ret

vars == <<raw, phase, t, call, ret>>

(***************************************************************************)
(* Bounds of the model.                                                    *)
(***************************************************************************)
MaxDays == 3

MaxGap == 5

MaxTau == 1

\* the number of days of the constant-runtime scenario
ScenarioDays == 10

\* the longest series handed to percent_savings on its own
MaxSeries == 2

(***************************************************************************)
(* Missing values.                                                         *)
(***************************************************************************)
NaN == -1000000

IsNaN(x) == x = NaN

None == [kind |-> "None", values |-> <<>>]

Series(values) == [kind |-> "Series", values |-> values]

Float(x) == [kind |-> "float", values |-> <<x>>]

\* numpy / pandas comparisons: any comparison with NaN is False
Ge(x, y) == ~IsNaN(x) /\ ~IsNaN(y) /\ x >= y

Le(x, y) == ~IsNaN(x) /\ ~IsNaN(y) /\ x <= y

Range(s) == {s[i] : i \in DOMAIN s}

\* the same sequence, with every element evaluated once
Array(s) == SubSeq(s, 1, Len(s))

RECURSIVE SumSeq(_)
SumSeq(s) == IF s = <<>> THEN 0 ELSE Head(s) + SumSeq(Tail(s))

\* Series.sum(): missing samples are skipped
SumLenient(s) == SumSeq(SelectSeq(s, LAMBDA x : ~IsNaN(x)))

\* pd.Series.sum(skipna=False): one missing sample makes the sum missing
SumStrict(s) == IF \E i \in DOMAIN s : IsNaN(s[i]) THEN NaN ELSE SumSeq(s)

(***************************************************************************)
(* The calendar (datetime).                                                *)
(***************************************************************************)
HoursPerDay == 24

IsLeap(y) == (y % 4 = 0 /\ y % 100 # 0) \/ y % 400 = 0

DaysBeforeYear(y) ==
    (y - 1) * 365 + ((y - 1) \div 4) - ((y - 1) \div 100) + ((y - 1) \div 400)

DaysInMonth(y, m) ==
    IF m = 2 THEN (IF IsLeap(y) THEN 29 ELSE 28)
    ELSE IF m \in {4, 6, 9, 11} THEN 30 ELSE 31

RECURSIVE DaysBeforeMonth(_, _)
DaysBeforeMonth(y, m) ==
    IF m = 1 THEN 0 ELSE DaysBeforeMonth(y, m - 1) + DaysInMonth(y, m - 1)

\* datetime(y, m, d) as an ordinal
Date(y, m, d) == DaysBeforeYear(y) + DaysBeforeMonth(y, m) + d

\* date.year
YearOf(d) ==
    CHOOSE y \in (d \div 366)..(d \div 365 + 1) :
        Date(y, 1, 1) <= d /\ d < Date(y + 1, 1, 1)

(***************************************************************************)
(* Constructor arguments.  The capability flags are the results of the     *)
(* equipment taxonomy (has_heating(heat_type), ...) for heat_type and      *)
(* cool_type strings of the taxonomy, and the series are hourly, starting  *)
(* at midnight of index_start.  The packaged resource files that           *)
(* get_climate_zones and find_baselines read are present.                  *)
(***************************************************************************)
Flags(h, c, a, e, r) ==
    [has_heating |-> h, has_cooling |-> c, has_auxiliary |-> a,
     has_emergency |-> e, has_resistance_heat |-> r]

EquipHeatPump == Flags(TRUE, TRUE, TRUE, TRUE, TRUE)

EquipFurnaceAC == Flags(TRUE, TRUE, FALSE, FALSE, FALSE)

EquipHeatOnly == Flags(TRUE, FALSE, FALSE, FALSE, FALSE)

EquipCoolOnly == Flags(FALSE, TRUE, FALSE, FALSE, FALSE)

EquipNone == Flags(FALSE, FALSE, FALSE, FALSE, FALSE)

Equipment ==
    {EquipHeatPump, EquipFurnaceAC, EquipHeatOnly, EquipCoolOnly, EquipNone}

\* minutes of runtime reported for a day on which the equipment ran
RunMinutes == 45

\* the hour of the day that holds the runtime
OnHour == 12

DayKinds ==
    {[heat |-> "on", cool |-> "off"], [heat |-> "off", cool |-> "on"],
     [heat |-> "on", cool |-> "on"], [heat |-> "gap", cool |-> "on"],
     [heat |-> "on", cool |-> "gap"]}

UniformKinds == {[heat |-> "on", cool |-> "off"], [heat |-> "off", cool |-> "on"]}

\* the runtime sample of hour h of a day of the given kind
RuntimeSample(code, h) ==
    IF code = "off" THEN 0
    ELSE IF h = OnHour THEN RunMinutes
    ELSE IF code = "gap" /\ h = OnHour + 1 THEN NaN
    ELSE 0

HourlyRuntime(kinds, which) ==
    [i \in 1..(Len(kinds) * HoursPerDay) |->
        RuntimeSample(kinds[((i - 1) \div HoursPerDay) + 1][which],
                      (i - 1) % HoursPerDay)]

Zeros(n) == [i \in 1..n |-> 0]

\* a run of missing samples: positions pos+1 .. pos+len of the series
NoGap == [pos |-> 0, len |-> 0]

InGap(g, i) == g.pos < i /\ i <= g.pos + g.len

TempInAt(i) == 64 + 6 * ((i - 1) \div HoursPerDay)

\* indoor minus outdoor is 2, 0, -2, 2, ... degrees from day to day
TempOutAt(i) == TempInAt(i) - 2 + 2 * (((i - 1) \div HoursPerDay) % 3)

HourlyTemperature(n, which, g) ==
    [i \in 1..(n * HoursPerDay) |->
        IF InGap(g, i) THEN NaN
        ELSE IF which = "in" THEN TempInAt(i) ELSE TempOutAt(i)]

Gaps(n) ==
    {NoGap} \cup
    {g \in [pos : {0, 3, HoursPerDay - 2, n * HoursPerDay - 1,
                   n * HoursPerDay - 2, n * HoursPerDay - 3},
            len : 1..MaxGap] :
        g.pos >= 0 /\ g.pos + g.len <= n * HoursPerDay}

StartMidYear == Date(2011, 6, 30)

StartEndYear == Date(2011, 12, 31)

StartDates == {StartMidYear, StartEndYear}

DaySeqs == UNION {[1..n -> DayKinds] : n \in 1..MaxDays}

ShortDaySeqs == UNION {[1..n -> DayKinds] : n \in 1..(MaxDays - 1)}

UniformDaySeqs ==
    UNION {[1..n -> {k}] : <<n, k>> \in (1..MaxDays) \X UniformKinds}

MakeRaw(equip, start, kinds, gin, gout, heat, cool, aux, emg) ==
    [equip |-> equip,
     index_start |-> start,
     temperature_in |-> HourlyTemperature(Len(kinds), "in", gin),
     temperature_out |-> HourlyTemperature(Len(kinds), "out", gout),
     cool_runtime |-> IF cool THEN Series(HourlyRuntime(kinds, "cool"))
                      ELSE Series(<<>>),
     heat_runtime |-> IF heat THEN Series(HourlyRuntime(kinds, "heat"))
                      ELSE Series(<<>>),
     auxiliary_heat_runtime |->
        IF aux THEN Series(Zeros(Len(kinds) * HoursPerDay)) ELSE None,
     emergency_heat_runtime |->
        IF emg THEN Series(Zeros(Len(kinds) * HoursPerDay)) ELSE None]

\* every equipment configuration over the shorter sequences of day kinds
EquipmentInputs ==
    {MakeRaw(e, StartMidYear, ks, NoGap, NoGap, TRUE, TRUE, TRUE, TRUE) :
        <<e, ks>> \in Equipment \X ShortDaySeqs}

\* data that starts just before a July 1 or a January 1
CalendarInputs ==
    {MakeRaw(EquipHeatPump, s, ks, NoGap, NoGap, TRUE, TRUE, TRUE, TRUE) :
        <<s, ks>> \in StartDates \X DaySeqs}

\* runs of missing temperature samples
TemperatureInputs ==
    UNION {{MakeRaw(EquipFurnaceAC, StartMidYear, ks, gin, gout,
                    TRUE, TRUE, TRUE, TRUE) :
               <<gin, gout>> \in Gaps(Len(ks)) \X {NoGap, [pos |-> 5, len |-> MaxGap]}} :
           ks \in UniformDaySeqs}

\* absent (None) and zero-length series
PresenceInputs ==
    {MakeRaw(e, StartMidYear, ks, NoGap, NoGap, p[1], p[2], p[3], p[4]) :
        <<e, ks, p>> \in Equipment
                         \X {<<>>, <<[heat |-> "on", cool |-> "on"]>>}
                         \X (BOOLEAN \X BOOLEAN \X BOOLEAN \X BOOLEAN)}

\* a heating-only thermostat that runs RunMinutes a day, every day
ScenarioInputs ==
    {MakeRaw(EquipHeatOnly, StartMidYear,
             [d \in 1..ScenarioDays |-> [heat |-> "on", cool |-> "off"]],
             NoGap, NoGap, TRUE, TRUE, TRUE, TRUE)}

Inputs ==
    EquipmentInputs \cup CalendarInputs \cup TemperatureInputs
        \cup PresenceInputs \cup ScenarioInputs

(***************************************************************************)
(* Thermostat.__init__                                                     *)
(***************************************************************************)
\* _interp_limit(invalid, 1, 1): the missing samples that limit=1 leaves
\* alone in both directions, those with no valid sample right before them
\* and none right after them
InterpLimit(s, i) ==
    /\ IsNaN(s[i])
    /\ (i = 1 \/ IsNaN(s[i - 1]))
    /\ (i = Len(s) \/ IsNaN(s[i + 1]))

ValidAt(s) == {j \in DOMAIN s : ~IsNaN(s[j])}

Max(S) == CHOOSE x \in S : \A y \in S : y <= x

Min(S) == CHOOSE x \in S : \A y \in S : x <= y

\* np.interp(i, valid positions, valid values): linear between the two
\* neighbouring valid samples, the nearest valid sample outside them
Interp(s, i) ==
    LET before == {j \in ValidAt(s) : j < i}
        after == {j \in ValidAt(s) : j > i}
    IN  IF before = {} THEN s[Min(after)]
        ELSE IF after = {} THEN s[Max(before)]
        ELSE LET p == Max(before)
                 n == Min(after)
             IN  s[p] + ((s[n] - s[p]) * (i - p)) \div (n - p)

\* series.interpolate(method="linear", limit=1, limit_direction="both")
Interpolate(s) ==
    IF ValidAt(s) = {} THEN s
    ELSE [i \in DOMAIN s |->
            IF ~IsNaN(s[i]) THEN s[i]
            ELSE IF InterpLimit(s, i) THEN NaN
            ELSE Interp(s, i)]

NumDays(hourly) == (Len(hourly) + HoursPerDay - 1) \div HoursPerDay

HoursOfDay(hourly, d) ==
    {i \in ((d - 1) * HoursPerDay + 1)..(d * HoursPerDay) : i <= Len(hourly)}

DaySlice(hourly, d) ==
    SubSeq(hourly, (d - 1) * HoursPerDay + 1,
           IF d * HoursPerDay <= Len(hourly) THEN d * HoursPerDay ELSE Len(hourly))

\* the sum that skips missing samples
DailySumSkipna(s) == SumLenient(s)

\* series.resample("D").agg(pd.Series.sum, skipna=False)
DailySum(s) == SumStrict(s)

\* the daily runtime of a runtime argument; pd.Series() when the argument
\* is None or zero-length
ResampleDaily(arg) ==
    IF arg.kind = "Series" /\ arg.values # <<>>
    THEN [d \in 1..NumDays(arg.values) |-> DailySum(DaySlice(arg.values, d))]
    ELSE <<>>

\* find_baselines: the columns of the heat pump baseline table that
\* pd.read_csv loads into self.runtime_heatpump_baseline
BaselineColumns ==
    {"day_of_year", "temperature", "heat_runtime", "aux_runtime", "emg_runtime"}

\* find_baselines: the temperature baseline table pd.read_csv loads into
\* self.hourly_temperature_baseline_heating and _cooling: one row per
\* hour of the year, every row with the same temperature_in
HourlyTemperatureBaseline(temperature_in) ==
    [kind |-> "DataFrame", temperature_in |-> temperature_in]

NewThermostat(r) ==
    [has_cooling |-> r.equip.has_cooling,
     has_heating |-> r.equip.has_heating,
     has_auxiliary |-> r.equip.has_auxiliary,
     has_emergency |-> r.equip.has_emergency,
     has_resistance_heat |-> r.equip.has_resistance_heat,
     index_start |-> r.index_start,
     temperature_in |-> Interpolate(r.temperature_in),
     temperature_out |-> Interpolate(r.temperature_out),
     cool_runtime_hourly |-> r.cool_runtime,
     heat_runtime_hourly |-> r.heat_runtime,
     cool_runtime_daily |-> ResampleDaily(r.cool_runtime),
     heat_runtime_daily |-> ResampleDaily(r.heat_runtime),
     auxiliary_heat_runtime |-> r.auxiliary_heat_runtime,
     emergency_heat_runtime |-> r.emergency_heat_runtime,
     auxiliary_runtime_daily |-> ResampleDaily(r.auxiliary_heat_runtime),
     emergency_runtime_daily |-> ResampleDaily(r.emergency_heat_runtime),
     heating_demand |-> None,
     tau |-> None,
     runtime_heatpump_baseline |-> BaselineColumns,
     hourly_temperature_baseline_heating |-> HourlyTemperatureBaseline(68),
     hourly_temperature_baseline_cooling |-> HourlyTemperatureBaseline(74)]

ValidateHeating(th) == th.has_heating => Len(th.heat_runtime_daily) # 0

\* no check of the cooling runtime
ValidateCoolingSkipped(th) == TRUE

ValidateCooling(th) == th.has_cooling => Len(th.cool_runtime_daily) # 0

\* and in the place of or
ValidateAuxEmergBoth(th) ==
    (th.has_auxiliary /\ th.has_emergency) =>
        ~(th.auxiliary_heat_runtime = None /\ th.emergency_heat_runtime = None)

ValidateAuxEmerg(th) ==
    (th.has_auxiliary /\ th.has_emergency) =>
        ~(th.auxiliary_heat_runtime = None \/ th.emergency_heat_runtime = None)

\* validate(): the first failing check raises ValueError
Validate(th) == ValidateHeating(th) /\ ValidateCooling(th) /\ ValidateAuxEmerg(th)

NoThermostat == [built |-> FALSE]

\* a float result: NaN, or the exact value described by val
NaNValue == [none |-> FALSE, nan |-> TRUE, val |-> <<>>]

Value(val) == [none |-> FALSE, nan |-> FALSE, val |-> val]

\* None where a float is expected
NoneValue == [none |-> TRUE, nan |-> FALSE, val |-> <<>>]

NoDemand ==
    [demand |-> <<>>, index |-> <<>>, tau |-> NaN, alpha |-> NaNValue,
     mse |-> NaNValue, rmse |-> NaNValue, cvrmse |-> NaNValue,
     mape |-> NaNValue, mae |-> NaNValue]

NoCall == [op |-> "none"]

NoRet ==
    [status |-> "none", exc |-> "", sets |-> <<>>, demand |-> NoDemand,
     metrics |-> <<>>, value |-> NaNValue, runtime_temp |-> <<>>,
     rhu |-> <<>>, warnings |-> {}, trace |-> <<>>,
     rh_metrics |-> [dnru |-> NoneValue]]

Raised(exc) == [NoRet EXCEPT !.status = "raised", !.exc = exc]

Init ==
    /\ raw \in Inputs
    /\ phase = "new"
    /\ t = NoThermostat
    /\ call = NoCall
    /\ ret = NoRet

Construct ==
    /\ phase = "new"
    /\ call' = [op |-> "__init__"]
    /\ LET th == NewThermostat(raw)
       IN  IF Validate(th)
           THEN /\ t' = th
                /\ phase' = "ready"
                /\ ret' = [NoRet EXCEPT !.status = "ok"]
           ELSE /\ t' = NoThermostat
                /\ phase' = "failed"
                /\ ret' = Raised("ValueError")
    /\ UNCHANGED raw

(***************************************************************************)
(* Core day sets.                                                          *)
(***************************************************************************)
DefaultMinMinutes == 30

DefaultMaxMinutes == 0

MaxMissingHours == 2

\* the date of entry d of a daily index that starts at index_start
DayDate(th, d) == th.index_start + d - 1

\* temperature.groupby(index.date).apply(lambda x: x.isnull().sum() <= 2);
\* a day with no group is False once the masks are aligned
EnoughTemp(temp, d) ==
    /\ HoursOfDay(temp, d) # {}
    /\ Cardinality({i \in HoursOfDay(temp, d) : IsNaN(temp[i])}) <= MaxMissingHours

At(s, d) == IF d \in DOMAIN s THEN s[d] ELSE NaN

MeetsPrimary(daily, d, min_minutes) == Ge(At(daily, d), min_minutes)

\* < in the place of <=
MeetsSecondaryStrict(has, daily, d, max_minutes) ==
    IF has THEN ~IsNaN(At(daily, d)) /\ At(daily, d) < max_minutes ELSE TRUE

\* no test of the secondary runtime
MeetsSecondaryAbsent(has, daily, d, max_minutes) == TRUE

MeetsSecondary(has, daily, d, max_minutes) ==
    IF has THEN Le(At(daily, d), max_minutes) ELSE TRUE

HeatingThresholds(th, min_minutes_heating, max_minutes_cooling) ==
    Array([d \in DOMAIN th.heat_runtime_daily |->
        /\ MeetsPrimary(th.heat_runtime_daily, d, min_minutes_heating)
        /\ MeetsSecondary(th.has_cooling, th.cool_runtime_daily, d,
                          max_minutes_cooling)
        /\ EnoughTemp(th.temperature_in, d)
        /\ EnoughTemp(th.temperature_out, d)])

CoolingThresholds(th, min_minutes_cooling, max_minutes_heating) ==
    Array([d \in DOMAIN th.cool_runtime_daily |->
        /\ MeetsSecondary(th.has_heating, th.heat_runtime_daily, d,
                          max_minutes_heating)
        /\ MeetsPrimary(th.cool_runtime_daily, d, min_minutes_cooling)
        /\ EnoughTemp(th.temperature_in, d)
        /\ EnoughTemp(th.temperature_out, d)])

\* a window that is closed on the right
RangeBooleanClosed(date, start_date, end_date) ==
    date >= start_date /\ date <= end_date

\* _get_range_boolean
RangeBoolean(date, start_date, end_date) == date >= start_date /\ date < end_date

\* np.tile in the place of np.repeat
HourlyBooleanTiled(daily) ==
    [i \in 1..(Len(daily) * HoursPerDay) |-> daily[((i - 1) % Len(daily)) + 1]]

\* _get_hourly_boolean: np.repeat(values, 24) over an hourly index of
\* 24 * len(daily) periods that starts at daily.index[0]
HourlyBoolean(daily) ==
    [i \in 1..(Len(daily) * HoursPerDay) |-> daily[((i - 1) \div HoursPerDay) + 1]]

\* every candidate window is kept
AnyTrueOrNot(mask) == TRUE

AnyTrue(mask) == \E d \in DOMAIN mask : mask[d]

AllName(mode) == [mode |-> mode, all |-> TRUE, from |-> 0, to |-> 0]

YearsName(mode, from, to) == [mode |-> mode, all |-> FALSE, from |-> from, to |-> to]

CoreDaySet(name, th, daily, start_date, end_date) ==
    [name |-> name,
     daily |-> daily,
     daily_start |-> DayDate(th, 1),
     hourly |-> HourlyBoolean(daily),
     hourly_start |-> DayDate(th, 1),
     start_date |-> start_date,
     end_date |-> end_date]

MaxOf(a, b) == IF a >= b THEN a ELSE b

\* the second argument whatever the first is
MinOfSecond(a, b) == b

MinOf(a, b) == IF a <= b THEN a ELSE b

\* the candidate set of one window [window_start, window_end), clipped to
\* the first and the last day of the data
PeriodSet(name, th, meets, window_start, window_end, data_start, data_end) ==
    LET start_date == MaxOf(window_start, data_start)
        end_date == MinOf(window_end, data_end)
        inclusion_daily ==
            Array([d \in DOMAIN meets |->
                RangeBoolean(DayDate(th, d), start_date, end_date) /\ meets[d]])
    IN  CoreDaySet(name, th, inclusion_daily, start_date, end_date)

Returned(sets) == [NoRet EXCEPT !.status = "ok", !.sets = sets]

HeatingMethods == {"year_mid_to_mid", "entire_dataset"}

CoolingMethods == {"year_end_to_end", "entire_dataset"}

\* get_core_heating_days
CoreHeatingDays(th, method, min_minutes_heating, max_minutes_cooling) ==
    IF method \notin HeatingMethods THEN Raised("NotImplementedError")
    ELSE IF ~th.has_heating THEN Raised("ValueError")
    ELSE IF Len(th.heat_runtime_daily) = 0 THEN Raised("IndexError")
    ELSE
    LET meets == HeatingThresholds(th, min_minutes_heating, max_minutes_cooling)
        data_start_date == DayDate(th, 1)
        data_end_date == DayDate(th, Len(th.heat_runtime_daily))
    IN  IF method = "year_mid_to_mid"
        THEN LET start_year == YearOf(data_start_date) - 1
                 end_year == YearOf(data_end_date) + 1
                 potential ==
                    [k \in 1..(end_year - start_year) |->
                        PeriodSet(YearsName("heating", start_year + k - 1,
                                            start_year + k),
                                  th, meets,
                                  Date(start_year + k - 1, 7, 1),
                                  Date(start_year + k, 7, 1),
                                  data_start_date, data_end_date)]
             IN  Returned(SelectSeq(potential, LAMBDA c : AnyTrue(c.daily)))
        ELSE Returned(<<CoreDaySet(AllName("heating"), th, meets,
                                   data_start_date, data_end_date)>>)

\* get_core_cooling_days
CoreCoolingDays(th, method, min_minutes_cooling, max_minutes_heating) ==
    IF method \notin CoolingMethods THEN Raised("NotImplementedError")
    ELSE IF ~th.has_cooling THEN Raised("ValueError")
    ELSE IF Len(th.cool_runtime_daily) = 0 THEN Raised("IndexError")
    ELSE
    LET data_start_date == DayDate(th, 1)
        data_end_date == DayDate(th, Len(th.cool_runtime_daily))
        meets == CoolingThresholds(th, min_minutes_cooling, max_minutes_heating)
    IN  IF method = "year_end_to_end"
        THEN LET start_year == YearOf(data_start_date)
                 end_year == YearOf(data_end_date)
                 potential ==
                    [k \in 1..(end_year + 1 - start_year) |->
                        PeriodSet(YearsName("cooling", start_year + k - 1,
                                            start_year + k - 1),
                                  th, meets,
                                  Date(start_year + k - 1, 1, 1),
                                  Date(start_year + k, 1, 1),
                                  data_start_date, data_end_date)]
             IN  Returned(SelectSeq(potential, LAMBDA c : AnyTrue(c.daily)))
        ELSE Returned(<<CoreDaySet(AllName("cooling"), th, meets,
                                   data_start_date, data_end_date)>>)

\* the method names and thresholds the callers pass
Methods == HeatingMethods \cup CoolingMethods

Thresholds ==
    {<<DefaultMinMinutes, DefaultMaxMinutes>>, <<RunMinutes, RunMinutes>>,
     <<RunMinutes + 1, DefaultMaxMinutes>>}

GetCoreHeatingDays ==
    /\ phase = "ready"
    /\ call.op = "__init__"
    /\ \E method \in Methods, th \in Thresholds :
        /\ call' = [op |-> "get_core_heating_days", method |-> method,
                    min_minutes |-> th[1], max_minutes |-> th[2]]
        /\ ret' = CoreHeatingDays(t, method, th[1], th[2])
    /\ UNCHANGED <<raw, phase, t>>

GetCoreCoolingDays ==
    /\ phase = "ready"
    /\ call.op = "__init__"
    /\ \E method \in Methods, th \in Thresholds :
        /\ call' = [op |-> "get_core_cooling_days", method |-> method,
                    min_minutes |-> th[1], max_minutes |-> th[2]]
        /\ ret' = CoreCoolingDays(t, method, th[1], th[2])
    /\ UNCHANGED <<raw, phase, t>>

(***************************************************************************)
(* The demand fit.  Daily demand is kept as the sum of the hourly degree   *)
(* measures of the day, its value being that sum / 24.                     *)
(***************************************************************************)
Abs(x) == IF x < 0 THEN 0 - x ELSE x

\* np.maximum(x, 0), NaN for a missing difference
Positive(x) == IF IsNaN(x) THEN NaN ELSE IF x > 0 THEN x ELSE 0

DeltaT(th, i) ==
    IF IsNaN(th.temperature_in[i]) \/ IsNaN(th.temperature_out[i]) THEN NaN
    ELSE th.temperature_in[i] - th.temperature_out[i]

\* the days a daily mask selects, in index order
Selected(mask) == SelectSeq([d \in DOMAIN mask |-> d], LAMBDA d : mask[d])

FirstHour(d) == (d - 1) * HoursPerDay + 1

LastHour(hourly, d) == MinOf(d * HoursPerDay, Len(hourly))

\* the days that have masked hours, in index order
MaskedDays(core_day_set) ==
    SelectSeq([d \in DOMAIN core_day_set.daily |-> d],
              LAMBDA d : \E i \in FirstHour(d)..LastHour(core_day_set.hourly, d) :
                            core_day_set.hourly[i])

\* the hours of day d that the hourly mask selects, in index order
MaskedHours(core_day_set, d) ==
    SelectSeq([h \in 1..(LastHour(core_day_set.hourly, d) - FirstHour(d) + 1) |->
                  FirstHour(d) + h - 1],
              LAMBDA i : core_day_set.hourly[i])

DeltaTOfHours(th, hours) == Array([j \in DOMAIN hours |-> DeltaT(th, hours[j])])

DeltaTOfDays(th, core_day_set, days) ==
    Array([k \in DOMAIN days |->
            DeltaTOfHours(th, MaskedHours(core_day_set, days[k]))])

\* core_day_set_deltaT grouped by date: the hourly temperature_in -
\* temperature_out of the masked hours, day by day
CoreDaySetDeltaT(th, core_day_set) ==
    DeltaTOfDays(th, core_day_set, MaskedDays(core_day_set))

\* the hourly degree measure [deltaT - tau]+ or [tau - deltaT]+; 0 for a
\* missing hour, which Series.sum() skips
Measure(mode, tau, x) ==
    IF IsNaN(x) THEN 0
    ELSE IF mode = "heating" THEN Positive(x - tau)
    ELSE Positive(tau - x)

RECURSIVE SumMeasure(_, _, _)
SumMeasure(mode, tau, xs) ==
    IF xs = <<>> THEN 0
    ELSE Measure(mode, tau, Head(xs)) + SumMeasure(mode, tau, Tail(xs))

\* calc_hdd(tau) and calc_cdd(tau): one entry per day that has masked hours
CalcDemand(deltaT, mode, tau) ==
    Array([k \in DOMAIN deltaT |-> SumMeasure(mode, tau, deltaT[k])])

RECURSIVE GCD(_, _)
GCD(a, b) == IF b = 0 THEN a ELSE GCD(b, a % b)

RECURSIVE GCDOfAll(_, _)
GCDOfAll(xs, g) ==
    IF xs = <<>> THEN g
    ELSE GCDOfAll(Tail(xs), IF IsNaN(Head(xs)) THEN g ELSE GCD(Abs(Head(xs)), g))

\* daily_runtime - hdd * alpha_estimate over the common denominator
\* total_demand: the numerators runtime * total_demand - demand * total_runtime
Numerators(demand, total_demand, total_runtime, daily_runtime) ==
    Array([k \in DOMAIN daily_runtime |->
            IF total_demand = 0 \/ IsNaN(daily_runtime[k]) \/ k \notin DOMAIN demand
            THEN NaN
            ELSE daily_runtime[k] * total_demand - demand[k] * total_runtime])

Reduced(numerators, g) ==
    Array([k \in DOMAIN numerators |->
            IF IsNaN(numerators[k]) THEN NaN ELSE numerators[k] \div g])

\* the errors as fractions over one denominator: errors[k] / scale
Errors(demand, total_demand, total_runtime, alpha, numerators, g) ==
    [demand |-> demand,
     total_demand |-> total_demand,
     total_runtime |-> total_runtime,
     alpha |-> alpha,
     scale |-> IF total_demand = 0 THEN 1 ELSE total_demand \div g,
     errors |-> IF total_demand = 0 THEN numerators ELSE Reduced(numerators, g)]

ErrorsOf(demand, total_demand, total_runtime, alpha, numerators) ==
    Errors(demand, total_demand, total_runtime, alpha, numerators,
           GCDOfAll(numerators, total_demand))

Estimates(demand, total_demand, total_runtime, daily_runtime) ==
    ErrorsOf(demand, total_demand, total_runtime,
             IF total_demand # 0
             THEN Value(<<HoursPerDay * total_runtime, total_demand>>)
             ELSE NaNValue,
             Numerators(demand, total_demand, total_runtime, daily_runtime))

EstimatesOf(demand, daily_runtime) ==
    Estimates(demand, SumSeq(demand), SumLenient(daily_runtime), daily_runtime)

\* calc_estimates(tau): the demand, alpha = total_runtime / total demand and
\* the errors, each error the numerator over the total demand
CalcEstimates(deltaT, mode, daily_runtime, tau) ==
    EstimatesOf(CalcDemand(deltaT, mode, tau), daily_runtime)

Squares(errors) ==
    [k \in DOMAIN errors |-> IF IsNaN(errors[k]) THEN NaN ELSE errors[k] * errors[k]]

Absolutes(errors) ==
    [k \in DOMAIN errors |-> IF IsNaN(errors[k]) THEN NaN ELSE Abs(errors[k])]

CountValid(s) == Cardinality(ValidAt(s))

\* np.nanmean(errors ** 2); NaN over no valid entry
Mse(e, n) ==
    IF n = 0 THEN NaNValue
    ELSE Value(<<SumLenient(Squares(e.errors)), n * e.scale * e.scale>>)

\* np.nanmean(np.absolute(errors))
Mae(e, n) ==
    IF n = 0 THEN NaNValue
    ELSE Value(<<SumLenient(Absolutes(e.errors)), n * e.scale>>)

\* rmse is the root of mse; cvrmse and mape divide by the mean daily
\* runtime total_runtime / days, and 0 / 0 is NaN
Stats(e, index, tau, mse, mae, days) ==
    [demand |-> e.demand,
     index |-> index,
     tau |-> tau,
     alpha |-> e.alpha,
     mse |-> mse,
     rmse |-> mse,
     cvrmse |-> IF mse.nan \/ days = 0 \/ (e.total_runtime = 0 /\ mse.val[1] = 0)
                THEN NaNValue
                ELSE Value(<<mse.val[1], mse.val[2], e.total_runtime, days>>),
     mape |-> IF mae.nan \/ days = 0 \/ (e.total_runtime = 0 /\ mae.val[1] = 0)
              THEN NaNValue
              ELSE Value(<<mae.val[1] * days, mae.val[2] * e.total_runtime>>),
     mae |-> mae]

StatsOf(e, index, tau, n, days) == Stats(e, index, tau, Mse(e, n), Mae(e, n), days)

\* get_heating_demand / get_cooling_demand after the solve: the final
\* estimates at the tau the solver returned
FinalEstimates(e, core_day_set, daily_runtime, tau) ==
    StatsOf(e, Selected(core_day_set.daily), tau, CountValid(e.errors),
            CountValid(daily_runtime))

DemandResult(deltaT, core_day_set, mode, daily_runtime, tau) ==
    FinalEstimates(CalcEstimates(deltaT, mode, daily_runtime, tau),
                   core_day_set, daily_runtime, tau)

\* a / b < c / d for a, c >= 0 and b, d > 0, by the continued fractions of
\* the two quotients
RECURSIVE LessFraction(_, _, _, _)
LessFraction(a, b, c, d) ==
    IF a \div b # c \div d THEN a \div b < c \div d
    ELSE IF c % d = 0 THEN FALSE
    ELSE IF a % b = 0 THEN TRUE
    ELSE LessFraction(d, c % d, b, a % b)

\* the sum of the squared residuals at tau, as <<numerator, denominator>>;
\* NaN when a residual is NaN
SumOfSquares(e) ==
    IF e.total_demand = 0 \/ (\E k \in DOMAIN e.errors : IsNaN(e.errors[k]))
    THEN NaNValue
    ELSE Value(<<SumSeq(Squares(e.errors)), e.scale * e.scale>>)

SumOfSquaresAt(deltaT, mode, daily_runtime, tau) ==
    SumOfSquares(CalcEstimates(deltaT, mode, daily_runtime, tau))

Better(x, y) == ~x.nan /\ ~y.nan /\ LessFraction(x.val[1], x.val[2], y.val[1], y.val[2])

\* the values of tau the solver tries
TauGrid == (0 - MaxTau)..MaxTau

\* the sums of squares over the grid are kept as a sequence, the entry of
\* tau at position tau + MaxTau + 1
Slot(tau) == tau + MaxTau + 1

\* the taus of the grid no other tau of the grid improves on
Minimizers(ssq) ==
    {tau \in TauGrid :
        /\ ~ssq[Slot(tau)].nan
        /\ \A u \in TauGrid : ~Better(ssq[Slot(u)], ssq[Slot(tau)])}

Nearest(S) == {tau \in S : \A u \in S : Abs(tau) <= Abs(u)}

\* a solver that may stop at any tau of the grid with numeric residuals
LeastsqAnyStep(ssq) == {0} \cup {tau \in TauGrid : ~ssq[Slot(tau)].nan}

\* leastsq(estimate_errors, 0): a descent from the starting guess 0, which
\* stays at 0 when the residuals there are NaN or no step improves on them
LeastsqOutcomes(ssq) ==
    IF ssq[Slot(0)].nan \/ 0 \in Minimizers(ssq) THEN {0}
    ELSE Nearest(Minimizers(ssq))

Leastsq(deltaT, mode, daily_runtime) ==
    LeastsqOutcomes(Array([k \in 1..(2 * MaxTau + 1) |->
        SumOfSquaresAt(deltaT, mode, daily_runtime, k - MaxTau - 1)]))

\* a solver that accepts an empty residual vector
LeastsqNeverRaises(errors) == FALSE

\* leastsq raises TypeError when the residual vector is shorter than the
\* parameter vector ("Improper input: N=1 must not exceed M=0")
LeastsqRaises(errors) == Len(errors) < 1

\* the residual vector estimate_errors(0): daily_runtime - runtime_estimate
\* has one entry per entry of daily_runtime
ResidualsAtStart(daily_runtime) == daily_runtime

\* the result for a core day set without days: an empty demand series
\* indexed by the included days, and NaN for every float
EmptyDemandResult(core_day_set) ==
    [NoDemand EXCEPT !.index = Selected(core_day_set.daily)]

RuntimeOfDays(daily, days) == Array([k \in DOMAIN days |-> At(daily, days[k])])

\* daily runtime[core_day_set.daily]
DailyRuntime(daily, core_day_set) == RuntimeOfDays(daily, Selected(core_day_set.daily))

DemandReturned(d) == [NoRet EXCEPT !.status = "ok", !.demand = d]

\* leastsq(estimate_errors, tau_starting_guess = 0) inside try / except
\* TypeError, and what follows it
FitDemand(th, core_day_set, mode, daily_runtime, tau) ==
    IF LeastsqRaises(ResidualsAtStart(daily_runtime))
    THEN DemandReturned(EmptyDemandResult(core_day_set))
    ELSE DemandReturned(DemandResult(CoreDaySetDeltaT(th, core_day_set),
                                     core_day_set, mode, daily_runtime, tau))

\* get_heating_demand
HeatingDemand(th, core_heating_day_set, tau) ==
    IF ~th.has_heating THEN Raised("ValueError")
    ELSE FitDemand(th, core_heating_day_set, "heating",
                   DailyRuntime(th.heat_runtime_daily, core_heating_day_set), tau)

\* get_cooling_demand
CoolingDemand(th, core_cooling_day_set, tau) ==
    IF ~th.has_cooling THEN Raised("ValueError")
    ELSE FitDemand(th, core_cooling_day_set, "cooling",
                   DailyRuntime(th.cool_runtime_daily, core_cooling_day_set), tau)

\* the all-False core day set of the test fixtures
\* (core_heating_day_set_type_1_empty, core_cooling_day_set_type_1_empty)
EmptyCoreDaySet(c) ==
    [c EXCEPT !.name = [mode |-> "empty", all |-> FALSE, from |-> 0, to |-> 0],
              !.daily = [d \in DOMAIN c.daily |-> FALSE],
              !.hourly = [i \in DOMAIN c.hourly |-> FALSE]]

\* the core day sets a caller holds after a detection
HeldSets == Range(ret.sets) \cup {EmptyCoreDaySet(c) : c \in Range(ret.sets)}

\* what the solver may return; it returns nothing for an empty residual
\* vector
SolverOutcomes(th, core_day_set, mode, daily) ==
    IF LeastsqRaises(ResidualsAtStart(DailyRuntime(daily, core_day_set))) THEN {0}
    ELSE Leastsq(CoreDaySetDeltaT(th, core_day_set), mode,
                 DailyRuntime(daily, core_day_set))

DefaultThresholds ==
    call.min_minutes = DefaultMinMinutes /\ call.max_minutes = DefaultMaxMinutes

GetHeatingDemand ==
    /\ phase = "ready"
    /\ call.op = "get_core_heating_days"
    /\ DefaultThresholds
    /\ ret.status = "ok"
    /\ \E c \in HeldSets :
        \E tau \in SolverOutcomes(t, c, "heating", t.heat_runtime_daily) :
            /\ call' = [op |-> "get_heating_demand", core_day_set |-> c]
            /\ ret' = HeatingDemand(t, c, tau)
    /\ UNCHANGED <<raw, phase, t>>

GetCoolingDemand ==
    /\ phase = "ready"
    /\ call.op = "get_core_cooling_days"
    /\ DefaultThresholds
    /\ ret.status = "ok"
    /\ \E c \in HeldSets :
        \E tau \in SolverOutcomes(t, c, "cooling", t.cool_runtime_daily) :
            /\ call' = [op |-> "get_cooling_demand", core_day_set |-> c]
            /\ ret' = CoolingDemand(t, c, tau)
    /\ UNCHANGED <<raw, phase, t>>

(***************************************************************************)
(* avoided and percent_savings.  A float is NaN or a fraction              *)
(* <<numerator, denominator>>; a fraction with denominator 0 is an         *)
(* infinity of the sign of its numerator.                                  *)
(***************************************************************************)
Sign(x) == IF x > 0 THEN 1 ELSE IF x < 0 THEN 0 - 1 ELSE 0

\* Series.mean(): the mean of the samples that are not missing, NaN when
\* there is none
Mean(s) ==
    IF CountValid(s) = 0 THEN NaNValue
    ELSE Value(<<SumLenient(s), CountValid(s)>>)

\* np.divide(x, y) with the floating point errors ignored: x / 0 is an
\* infinity, 0 / 0 is NaN
Divide(x, y) ==
    IF x.nan \/ y.nan THEN NaNValue
    ELSE IF y.val[1] = 0
         THEN (IF x.val[1] = 0 THEN NaNValue ELSE Value(<<Sign(x.val[1]), 0>>))
         ELSE Value(<<x.val[1] * y.val[2] * Sign(y.val[1]),
                      x.val[2] * Abs(y.val[1])>>)

Times(x, k) == IF x.nan THEN NaNValue ELSE Value(<<x.val[1] * k, x.val[2]>>)

\* baseline - observed, sample by sample
Avoided(baseline, observed) ==
    [k \in DOMAIN baseline |->
        IF IsNaN(baseline[k]) \/ IsNaN(At(observed, k)) THEN NaN
        ELSE baseline[k] - observed[k]]

\* the quotient of the means, not multiplied by 100
FractionSavings(avoided, baseline) == Divide(Mean(avoided), Mean(baseline))

PercentSavings(avoided, baseline) ==
    Times(Divide(Mean(avoided), Mean(baseline)), 100)

\* the series percent_savings is applied to on its own
AvoidedValues == {0 - 10, 0, 10, 20}

BaselineValues == {0 - 100, 0, 100, 200}

SavingsInputs(longest) ==
    UNION {{[avoided |-> a, baseline |-> b] :
                <<a, b>> \in [1..n -> AvoidedValues] \X [1..n -> BaselineValues]} :
           n \in 1..longest}

InitSavings ==
    /\ raw \in SavingsInputs(MaxSeries)
    /\ phase = "new"
    /\ t = NoThermostat
    /\ call = NoCall
    /\ ret = NoRet

PercentSavingsCall ==
    /\ phase = "new"
    /\ call' = [op |-> "percent_savings"]
    /\ ret' = [NoRet EXCEPT !.status = "ok",
                            !.value = PercentSavings(raw.avoided, raw.baseline)]
    /\ phase' = "done"
    /\ UNCHANGED <<raw, t>>

(***************************************************************************)
(* Baselines and savings.  A comfort temperature is a fraction of degrees; *)
(* a baseline demand is kept, day by day, as the sum of the hourly degree  *)
(* measures in tenths of a degree, its value being that sum / 240.  A      *)
(* runtime series is kept as numerators over one denominator.              *)
(***************************************************************************)
TenthsPerDay == 10 * HoursPerDay

\* temperature_in[core_day_set.hourly].dropna()
CoreDaySetTemperatureIn(th, core_day_set) ==
    SelectSeq(Array([i \in DOMAIN th.temperature_in |->
                        IF core_day_set.hourly[i]
                        THEN th.temperature_in[i] ELSE NaN]),
              LAMBDA x : ~IsNaN(x))

\* Series.quantile(q / 10) of sorted samples, by linear interpolation
\* between the samples next to position (n - 1) * q / 10; in tenths
Quantile(sorted, q) ==
    IF sorted = <<>> THEN NaNValue
    ELSE IF ((Len(sorted) - 1) * q) % 10 = 0
    THEN Value(<<10 * sorted[((Len(sorted) - 1) * q) \div 10 + 1], 10>>)
    ELSE Value(<<10 * sorted[((Len(sorted) - 1) * q) \div 10 + 1]
                 + (((Len(sorted) - 1) * q) % 10)
                   * (sorted[((Len(sorted) - 1) * q) \div 10 + 2]
                      - sorted[((Len(sorted) - 1) * q) \div 10 + 1]), 10>>)

Sorted(s) == SortSeq(s, LAMBDA a, b : a < b)

\* get_core_cooling_day_baseline_setpoint: the 10th percentile of the
\* indoor temperature of the core cooling hours
CoolingBaselineSetpoint(th, core_cooling_day_set) ==
    Quantile(Sorted(CoreDaySetTemperatureIn(th, core_cooling_day_set)), 1)

\* get_core_heating_day_baseline_setpoint: the 90th percentile
HeatingBaselineSetpoint(th, core_heating_day_set) ==
    Quantile(Sorted(CoreDaySetTemperatureIn(th, core_heating_day_set)), 9)

\* one hour of baseline demand in tenths of a degree:
\* [tau - (temp_baseline - temp_out)]+ or [temp_baseline - temp_out - tau]+,
\* 0 for an hour whose measure is NaN, which Series.sum() skips
BaselineMeasure(mode, tenths, tau, temp_out) ==
    IF IsNaN(tenths) \/ IsNaN(tau) \/ IsNaN(temp_out) THEN 0
    ELSE IF mode = "heating" THEN Positive(tenths - 10 * temp_out - 10 * tau)
    ELSE Positive(10 * tau - (tenths - 10 * temp_out))

RECURSIVE SumBaselineMeasure(_, _, _, _, _)
SumBaselineMeasure(th, mode, tenths, tau, hours) ==
    IF hours = <<>> THEN 0
    ELSE BaselineMeasure(mode, tenths, tau, th.temperature_out[Head(hours)])
         + SumBaselineMeasure(th, mode, tenths, tau, Tail(hours))

Tenths(temp_baseline) ==
    IF temp_baseline.nan THEN NaN
    ELSE (10 * temp_baseline.val[1]) \div temp_baseline.val[2]

BaselineDemandOfDays(th, core_day_set, mode, tenths, tau, days) ==
    Array([k \in DOMAIN days |->
            SumBaselineMeasure(th, mode, tenths, tau,
                               MaskedHours(core_day_set, days[k]))])

\* get_baseline_cooling_demand / get_baseline_heating_demand: one entry per
\* day that has masked hours
BaselineDemand(th, core_day_set, mode, temp_baseline, tau) ==
    BaselineDemandOfDays(th, core_day_set, mode, Tenths(temp_baseline), tau,
                         MaskedDays(core_day_set))

Normal(val, g) == <<val[1] \div g, val[2] \div g>>

\* a fraction in lowest terms
Lowest(val) == IF val[1] = 0 /\ val[2] = 0 THEN val ELSE Normal(val, GCD(Abs(val[1]), Abs(val[2])))

\* a series of fractions numer[k] / denom
Fractions(numer, denom, g) ==
    [numer |-> Reduced(numer, g), denom |-> denom \div g]

FractionsOf(numer, denom) == Fractions(numer, denom, GCDOfAll(numer, denom))

AllNaNSeries(n) == [numer |-> Array([k \in 1..n |-> NaN]), denom |-> 1]

RuntimeNumerators(demand, a) ==
    Array([k \in DOMAIN demand |-> Positive(a * demand[k])])

\* get_baseline_cooling_runtime / get_baseline_heating_runtime:
\* np.maximum(alpha * demand, 0)
BaselineRuntimeOf(demand, alpha) ==
    FractionsOf(RuntimeNumerators(demand, alpha[1]), TenthsPerDay * alpha[2])

BaselineRuntime(demand, alpha) ==
    IF alpha.nan THEN AllNaNSeries(Len(demand))
    ELSE BaselineRuntimeOf(demand, Lowest(alpha.val))

\* avoided(baseline_runtime, daily_runtime) over the denominator of the
\* baseline runtime
AvoidedNumerators(baseline, daily_runtime) ==
    Array([k \in DOMAIN baseline.numer |->
            IF IsNaN(baseline.numer[k]) \/ IsNaN(At(daily_runtime, k)) THEN NaN
            ELSE baseline.numer[k] - daily_runtime[k] * baseline.denom])

AvoidedRuntime(baseline, daily_runtime) ==
    [numer |-> AvoidedNumerators(baseline, daily_runtime), denom |-> baseline.denom]

\* Series.mean() of a series of fractions
MeanOf(s) ==
    IF CountValid(s.numer) = 0 THEN NaNValue
    ELSE Value(Lowest(<<SumLenient(s.numer), CountValid(s.numer) * s.denom>>))

\* Series.sum() of a series of fractions
TotalOf(s) == Value(Lowest(<<SumLenient(s.numer), s.denom>>))

\* np.nanmean of a baseline demand
MeanDemand(demand) ==
    IF demand = <<>> THEN NaNValue
    ELSE Value(Lowest(<<SumSeq(demand), Len(demand) * TenthsPerDay>>))

\* the fields derived from one baseline comfort temperature
BaselineFields(demand, runtime, avoided_runtime) ==
    [percent_savings |-> PercentSavings(avoided_runtime.numer, runtime.numer),
     avoided_daily_mean_core_day_runtime |-> MeanOf(avoided_runtime),
     avoided_total_core_day_runtime |-> TotalOf(avoided_runtime),
     baseline_daily_mean_core_day_runtime |-> MeanOf(runtime),
     baseline_total_core_day_runtime |-> TotalOf(runtime),
     daily_mean_core_day_demand_baseline |-> MeanDemand(demand)]

BaselineFieldsOfRuntime(demand, runtime, daily_runtime) ==
    BaselineFields(demand, runtime, AvoidedRuntime(runtime, daily_runtime))

BaselineFieldsOf(demand, alpha, daily_runtime) ==
    BaselineFieldsOfRuntime(demand, BaselineRuntime(demand, alpha), daily_runtime)

\* the else branch: every field of the regional baseline is None
NoBaselineFields ==
    [percent_savings |-> NoneValue,
     avoided_daily_mean_core_day_runtime |-> NoneValue,
     avoided_total_core_day_runtime |-> NoneValue,
     baseline_daily_mean_core_day_runtime |-> NoneValue,
     baseline_total_core_day_runtime |-> NoneValue,
     daily_mean_core_day_demand_baseline |-> NoneValue]

\* the baseline10 / baseline90 fields of one core day set
PercentileBaseline(th, core_day_set, mode, d, daily_runtime, temp_baseline) ==
    BaselineFieldsOf(BaselineDemand(th, core_day_set, mode, temp_baseline, d.tau),
                     d.alpha, daily_runtime)

\* the regional fields computed without looking at the comfort temperature
RegionalBaselineUnguarded(th, core_day_set, mode, d, daily_runtime, temp_baseline) ==
    BaselineFieldsOf(BaselineDemand(th, core_day_set, mode,
                                    IF temp_baseline.none THEN NaNValue
                                    ELSE temp_baseline, d.tau),
                     d.alpha, daily_runtime)

\* if baseline_regional_..._comfort_temperature is not None: ... else: ...
RegionalBaseline(th, core_day_set, mode, d, daily_runtime, temp_baseline) ==
    IF temp_baseline.none THEN NoBaselineFields
    ELSE BaselineFieldsOf(BaselineDemand(th, core_day_set, mode, temp_baseline, d.tau),
                          d.alpha, daily_runtime)

\* get_baseline_hourly_cooling_demand / get_baseline_hourly_heating_demand:
\* an empty series for a set without hours; else every hour is merged with
\* the row of its hour of the year, and the measures taken with the
\* temperature_in of that row are summed by day
BaselineHourlyDemandOfDays(th, core_day_set, mode, temp_baseline, tau, days) ==
    IF days = <<>> THEN <<>>
    ELSE BaselineDemandOfDays(th, core_day_set, mode, 10 * temp_baseline.temperature_in,
                              tau, days)

BaselineHourlyDemand(th, core_day_set, mode, temp_baseline, tau) ==
    BaselineHourlyDemandOfDays(th, core_day_set, mode, temp_baseline, tau,
                               MaskedDays(core_day_set))

\* the hourly regional fields computed at the starting guess of the solver
HourlyRegionalBaselineAtStart(th, core_day_set, mode, d, daily_runtime, temp_baseline) ==
    BaselineFieldsOf(BaselineHourlyDemand(th, core_day_set, mode, temp_baseline, 0),
                     d.alpha, daily_runtime)

\* if self.hourly_temperature_baseline_... is not None: ... else: ...
HourlyRegionalBaseline(th, core_day_set, mode, d, daily_runtime, temp_baseline) ==
    IF temp_baseline = None THEN NoBaselineFields
    ELSE BaselineFieldsOf(BaselineHourlyDemand(th, core_day_set, mode, temp_baseline, d.tau),
                          d.alpha, daily_runtime)

(***************************************************************************)
(* Resistance heat utilization.  runtime_temp is a table with one row per  *)
(* day; its temperature is the mean of the outdoor temperature of the day, *)
(* kept as <<sum, count>>.                                                 *)
(***************************************************************************)
VAR_MIN_RHU_RUNTIME == 30 * 60

RESISTANCE_HEAT_USE_BIN == [x \in 1..13 |-> 5 * (x - 1)]

RESISTANCE_HEAT_USE_WIDE_BIN == <<30, 45>>

MinutesPerDay == 1440

\* resample("D").mean(): the mean of the samples of the day that are not
\* missing
DailyMean(s) ==
    IF CountValid(s) = 0 THEN NaNValue
    ELSE Value(<<SumLenient(s), CountValid(s)>>)

RuntimeTempRow(th, d) ==
    [day |-> d,
     temperature |-> DailyMean(DaySlice(th.temperature_out, d)),
     heat_runtime |-> At(th.heat_runtime_daily, d),
     aux_runtime |-> SumLenient(DaySlice(th.auxiliary_heat_runtime.values, d)),
     emg_runtime |-> SumLenient(DaySlice(th.emergency_heat_runtime.values, d)),
     total_minutes |-> MinutesPerDay]

InCoreDaySetDaily(th, core_heating_day_set) ==
    Array([d \in DOMAIN core_heating_day_set.daily |->
            RangeBoolean(DayDate(th, d), core_heating_day_set.start_date,
                         core_heating_day_set.end_date)])

RuntimeTempOfDays(th, days) ==
    Array([k \in DOMAIN days |-> RuntimeTempRow(th, days[k])])

\* the rows of the days from start_date up to end_date, end_date excluded
RuntimeTemp(th, core_heating_day_set) ==
    RuntimeTempOfDays(th, Selected(InCoreDaySetDaily(th, core_heating_day_set)))

RuntimeReturned(runtime_temp) ==
    [NoRet EXCEPT !.status = "ok", !.runtime_temp = runtime_temp]

\* get_resistance_heat_utilization_runtime
ResistanceHeatUtilizationRuntime(th, core_heating_day_set) ==
    IF ~(th.has_auxiliary /\ th.has_emergency) THEN Raised("ValueError")
    ELSE IF ~th.has_resistance_heat THEN Raised("ValueError")
    ELSE RuntimeReturned(RuntimeTemp(th, core_heating_day_set))

\* pd.cut(temperature, bins): the row is in the interval (left, right]
InBin(row, left, right) ==
    /\ ~row.temperature.nan
    /\ left * row.temperature.val[2] < row.temperature.val[1]
    /\ row.temperature.val[1] <= right * row.temperature.val[2]

RowsOfBin(runtime_temp, left, right) ==
    SelectSeq(runtime_temp, LAMBDA row : InBin(row, left, right))

Column(rows, name) == Array([k \in DOMAIN rows |-> rows[k][name]])

\* (aux + emg) / (heat + emg) in floating point: 0 / 0 is NaN and x / 0 an
\* infinity
Rhu(heat_runtime, aux_runtime, emg_runtime) ==
    IF heat_runtime + emg_runtime = 0
    THEN (IF aux_runtime + emg_runtime = 0 THEN NaNValue ELSE Value(<<1, 0>>))
    ELSE Value(<<aux_runtime + emg_runtime, heat_runtime + emg_runtime>>)

\* rhu without the test on data_is_nonsense
BinRowLenient(left, right, heat_runtime, aux_runtime, emg_runtime, total_minutes, too_short) ==
    [left |-> left,
     right |-> right,
     heat_runtime |-> heat_runtime,
     aux_runtime |-> aux_runtime,
     emg_runtime |-> emg_runtime,
     total_minutes |-> total_minutes,
     rhu |-> IF too_short THEN NaNValue
             ELSE Rhu(heat_runtime, aux_runtime, emg_runtime),
     total_runtime |-> IF too_short THEN NaN
                       ELSE heat_runtime + aux_runtime + emg_runtime,
     data_is_nonsense |-> aux_runtime > heat_runtime]

\* one row of runtime_rhu: the sums of the bin, rhu, total_runtime and
\* data_is_nonsense
BinRow(left, right, heat_runtime, aux_runtime, emg_runtime, total_minutes, too_short) ==
    [left |-> left,
     right |-> right,
     heat_runtime |-> heat_runtime,
     aux_runtime |-> aux_runtime,
     emg_runtime |-> emg_runtime,
     total_minutes |-> total_minutes,
     rhu |-> IF too_short \/ aux_runtime > heat_runtime THEN NaNValue
             ELSE Rhu(heat_runtime, aux_runtime, emg_runtime),
     total_runtime |-> IF too_short THEN NaN
                       ELSE heat_runtime + aux_runtime + emg_runtime,
     data_is_nonsense |-> aux_runtime > heat_runtime]

\* the compressor runtime alone in the place of total_runtime
TooShortOfHeat(heat_runtime, aux_runtime, emg_runtime, min_runtime_minutes) ==
    min_runtime_minutes # 0 /\ heat_runtime < min_runtime_minutes

\* if min_runtime_minutes: ... total_runtime < min_runtime_minutes
TooShort(heat_runtime, aux_runtime, emg_runtime, min_runtime_minutes) ==
    /\ min_runtime_minutes # 0
    /\ heat_runtime + aux_runtime + emg_runtime < min_runtime_minutes

BinOfSums(left, right, heat_runtime, aux_runtime, emg_runtime, total_minutes, min_runtime_minutes) ==
    BinRow(left, right, heat_runtime, aux_runtime, emg_runtime, total_minutes,
           TooShort(heat_runtime, aux_runtime, emg_runtime, min_runtime_minutes))

\* groupby("bins")[...].sum() of one bin
BinOfRows(rows, left, right, min_runtime_minutes) ==
    BinOfSums(left, right, SumLenient(Column(rows, "heat_runtime")),
              SumLenient(Column(rows, "aux_runtime")),
              SumLenient(Column(rows, "emg_runtime")),
              SumLenient(Column(rows, "total_minutes")), min_runtime_minutes)

\* runtime_rhu, ascending by temperature bin
RuntimeRhu(runtime_temp, bins, min_runtime_minutes) ==
    Array([b \in 1..(Len(bins) - 1) |->
            BinOfRows(RowsOfBin(runtime_temp, bins[b], bins[b + 1]),
                      bins[b], bins[b + 1], min_runtime_minutes)])

\* the bins a warning is emitted for
Warnings(runtime_rhu) ==
    {<<runtime_rhu[b].left, runtime_rhu[b].right>> :
        b \in {x \in DOMAIN runtime_rhu : runtime_rhu[x].data_is_nonsense}}

BinsReturned(runtime_rhu) ==
    [NoRet EXCEPT !.status = "ok", !.rhu = runtime_rhu,
                  !.warnings = Warnings(runtime_rhu)]

\* get_resistance_heat_utilization_bins; min_runtime_minutes 0 stands for
\* None
ResistanceHeatUtilizationBins(th, runtime_temp, bins, min_runtime_minutes) ==
    IF ~th.has_resistance_heat THEN Raised("ValueError")
    ELSE IF ~(th.has_auxiliary /\ th.has_emergency) THEN Raised("ValueError")
    ELSE BinsReturned(RuntimeRhu(runtime_temp, bins, min_runtime_minutes))

\* the days of the records the resistance heat utilization is explored
\* with: the outdoor temperature of the day and the minutes of runtime
ResistanceDayKinds ==
    {[temperature |-> 32, heat |-> 30, cool |-> 0, aux |-> 50, emg |-> 0, all_day |-> FALSE],
     [temperature |-> 32, heat |-> 45, cool |-> 0, aux |-> 10, emg |-> 0, all_day |-> FALSE],
     [temperature |-> 42, heat |-> 45, cool |-> 0, aux |-> 0, emg |-> 15, all_day |-> FALSE],
     [temperature |-> 42, heat |-> 45, cool |-> 45, aux |-> 20, emg |-> 0, all_day |-> FALSE],
     [temperature |-> 70, heat |-> 30, cool |-> 0, aux |-> 0, emg |-> 0, all_day |-> FALSE]}

\* a cold day on which the compressor runs the whole of every hour and the
\* auxiliary heat 20 minutes of every hour
ColdDay ==
    [temperature |-> 32, heat |-> 60, cool |-> 0, aux |-> 20, emg |-> 0, all_day |-> TRUE]

\* a less cold day on which the compressor runs half of every hour
CoolDay ==
    [temperature |-> 42, heat |-> 30, cool |-> 0, aux |-> 10, emg |-> 0, all_day |-> TRUE]

MildDay ==
    [temperature |-> 70, heat |-> 10, cool |-> 0, aux |-> 0, emg |-> 0, all_day |-> TRUE]

HourlyOfDays(days, name) ==
    [i \in 1..(Len(days) * HoursPerDay) |->
        IF name = "temperature" THEN days[((i - 1) \div HoursPerDay) + 1].temperature
        ELSE IF \/ days[((i - 1) \div HoursPerDay) + 1].all_day
                \/ ((i - 1) % HoursPerDay) + 1 = OnHour
        THEN days[((i - 1) \div HoursPerDay) + 1][name]
        ELSE 0]

\* a thermostat with auxiliary and emergency heat that is not resistance
\* heat
EquipDualFuel == Flags(TRUE, TRUE, TRUE, TRUE, FALSE)

MakeResistanceRaw(equip, days) ==
    [equip |-> equip,
     index_start |-> StartMidYear,
     temperature_in |-> [i \in 1..(Len(days) * HoursPerDay) |-> 68],
     temperature_out |-> HourlyOfDays(days, "temperature"),
     cool_runtime |-> Series(HourlyOfDays(days, "cool")),
     heat_runtime |-> Series(HourlyOfDays(days, "heat")),
     auxiliary_heat_runtime |-> Series(HourlyOfDays(days, "aux")),
     emergency_heat_runtime |-> Series(HourlyOfDays(days, "emg"))]

ResistanceInputs(longest) ==
    {MakeResistanceRaw(e, days) :
        <<e, days>> \in {EquipHeatPump, EquipDualFuel}
                        \X UNION {[1..n -> ResistanceDayKinds] : n \in 2..longest}}

\* records that begin with a cold day of long runtimes
LongRuntimeInputs ==
    {MakeResistanceRaw(EquipHeatPump, days) :
        days \in {<<ColdDay, ColdDay, MildDay>>, <<ColdDay, CoolDay, MildDay>>,
                  <<ColdDay, ColdDay, ColdDay, MildDay>>}}

\* the records the resistance heat metrics are called on
\* records of a furnace with air conditioning over three days, each a
\* heating day or a cooling day
SeasonInputs ==
    {MakeRaw(EquipFurnaceAC, StartMidYear, kinds, NoGap, NoGap, TRUE, TRUE, FALSE, FALSE) :
        kinds \in [1..3 -> UniformKinds]}

MetricsInputs ==
    {MakeResistanceRaw(e, days) :
        <<e, days>> \in {EquipHeatPump, EquipDualFuel}
                        \X [1..2 -> ResistanceDayKinds]}
        \cup LongRuntimeInputs \cup SeasonInputs

InitMetrics ==
    /\ raw \in MetricsInputs
    /\ phase = "new"
    /\ t = NoThermostat
    /\ call = NoCall
    /\ ret = NoRet

InitResistance ==
    /\ raw \in ResistanceInputs(MaxDays) \cup LongRuntimeInputs
    /\ phase = "new"
    /\ t = NoThermostat
    /\ call = NoCall
    /\ ret = NoRet

GetResistanceHeatUtilizationRuntime ==
    /\ phase = "ready"
    /\ call.op = "get_core_heating_days"
    /\ ret.status = "ok"
    /\ \E c \in Range(ret.sets) :
        /\ call' = [op |-> "get_resistance_heat_utilization_runtime",
                    core_day_set |-> c]
        /\ ret' = ResistanceHeatUtilizationRuntime(t, c)
    /\ UNCHANGED <<raw, phase, t>>

GetResistanceHeatUtilizationBins ==
    /\ phase = "ready"
    /\ call.op = "get_resistance_heat_utilization_runtime"
    /\ ret.status = "ok"
    /\ \E bins \in {RESISTANCE_HEAT_USE_BIN, RESISTANCE_HEAT_USE_WIDE_BIN},
          min_runtime_minutes \in {0, VAR_MIN_RHU_RUNTIME, RunMinutes} :
        /\ call' = [op |-> "get_resistance_heat_utilization_bins",
                    core_day_set |-> call.core_day_set,
                    runtime_temp |-> ret.runtime_temp,
                    bins |-> bins,
                    min_runtime_minutes |-> min_runtime_minutes]
        /\ ret' = ResistanceHeatUtilizationBins(t, ret.runtime_temp, bins,
                                                min_runtime_minutes)
    /\ UNCHANGED <<raw, phase, t>>

(***************************************************************************)
(* calculate_epa_field_savings_metrics.  A metrics record carries the      *)
(* name and period of its core day set, the number of core days and the    *)
(* results of the demand fit.                                              *)
(***************************************************************************)
\* a cooling loop that is skipped for a method name it does not know
CoolingLoopSetsLenient(th, core_cooling_day_set_method) ==
    IF th.has_cooling /\ core_cooling_day_set_method \in CoolingMethods
    THEN CoreCoolingDays(th, core_cooling_day_set_method,
                         DefaultMinMinutes, DefaultMaxMinutes)
    ELSE Returned(<<>>)

\* the core day sets the cooling loop iterates over
CoolingLoopSets(th, core_cooling_day_set_method) ==
    IF th.has_cooling
    THEN CoreCoolingDays(th, core_cooling_day_set_method,
                         DefaultMinMinutes, DefaultMaxMinutes)
    ELSE Returned(<<>>)

\* the core day sets the heating loop iterates over
HeatingLoopSets(th, core_heating_day_set_method) ==
    IF th.has_heating
    THEN CoreHeatingDays(th, core_heating_day_set_method,
                         DefaultMinMinutes, DefaultMaxMinutes)
    ELSE Returned(<<>>)

\* an outputs dictionary that was not updated with the auxiliary /
\* emergency outputs
NoAdditionalOutputs ==
    [updated |-> FALSE,
     total_auxiliary_heating_core_day_runtime |-> NoneValue,
     total_emergency_heating_core_day_runtime |-> NoneValue,
     rhu1 |-> <<>>, rhu2 |-> <<>>]

\* the outputs dictionary of one core day set; the heating outputs are
\* updated with the auxiliary / emergency outputs when the thermostat has
\* both capabilities
Outputs(core_day_set, d, additional_outputs) ==
    [heating_or_cooling |-> core_day_set.name,
     start_date |-> core_day_set.start_date,
     end_date |-> core_day_set.end_date,
     n_core_days |-> Len(Selected(core_day_set.daily)),
     tau |-> d.tau,
     alpha |-> d.alpha,
     mean_sq_err |-> d.mse,
     root_mean_sq_err |-> d.rmse,
     cv_root_mean_sq_err |-> d.cvrmse,
     mean_abs_pct_err |-> d.mape,
     mean_abs_err |-> d.mae,
     additional_outputs |-> additional_outputs]

\* the comfort temperatures and the savings fields of one core day set:
\* <field>_baseline_percentile, <field>_baseline_regional and
\* <field>_baseline_hourly_regional
Baselines(th, core_day_set, mode, d, daily_runtime, setpoint, regional) ==
    [baseline_percentile_comfort_temperature |-> setpoint,
     regional_average_baseline_comfort_temperature |-> regional,
     baseline_percentile |->
        PercentileBaseline(th, core_day_set, mode, d, daily_runtime, setpoint),
     baseline_regional |->
        RegionalBaseline(th, core_day_set, mode, d, daily_runtime, regional),
     baseline_hourly_regional |->
        HourlyRegionalBaseline(th, core_day_set, mode, d, daily_runtime,
                               IF mode = "heating"
                               THEN th.hourly_temperature_baseline_heating
                               ELSE th.hourly_temperature_baseline_cooling)]

\* what the solver may return for each set of a loop
LoopOutcomes(th, sets, mode, daily) ==
    Array([k \in DOMAIN sets |-> SolverOutcomes(th, sets[k], mode, daily)])

\* one solver result for every set of a loop
TauChoices(outcomes) ==
    {f \in [DOMAIN outcomes -> TauGrid] : \A k \in DOMAIN outcomes : f[k] \in outcomes[k]}

CoolingDemands(th, sets, taus) ==
    Array([k \in DOMAIN sets |-> CoolingDemand(th, sets[k], taus[k]).demand])

HeatingDemands(th, sets, taus) ==
    Array([k \in DOMAIN sets |-> HeatingDemand(th, sets[k], taus[k]).demand])

\* _calculate_cooling_epa_field_savings_metrics, set by set
CoolingOutputs(th, sets, demands, regional) ==
    [k \in DOMAIN sets |->
        Outputs(sets[k], demands[k], NoAdditionalOutputs)
        @@ Baselines(th, sets[k], "cooling", demands[k],
                     DailyRuntime(th.cool_runtime_daily, sets[k]),
                     CoolingBaselineSetpoint(th, sets[k]), regional)]

\* _calculate_heating_epa_field_savings_metrics, set by set
HeatingOutputs(th, sets, demands, regional) ==
    [k \in DOMAIN sets |->
        Outputs(sets[k], demands[k], NoAdditionalOutputs)
        @@ Baselines(th, sets[k], "heating", demands[k],
                     DailyRuntime(th.heat_runtime_daily, sets[k]),
                     HeatingBaselineSetpoint(th, sets[k]), regional)]

\* self.heating_demand = demand.copy(); self.tau = tau
Scratch(th, d) ==
    [th EXCEPT !.heating_demand = [kind |-> "Series", values |-> d.demand,
                                   index |-> d.index],
               !.tau = Float(d.tau)]

\* the sum of the first n entries
RECURSIVE SumTo(_, _)
SumTo(s, n) == IF n = 0 THEN 0 ELSE s[n] + SumTo(s, n - 1)

\* series[core_day_set.hourly].sum()
MaskedSum(values, mask) ==
    SumTo([i \in DOMAIN values |->
             IF mask[i] /\ ~IsNaN(values[i]) THEN values[i] ELSE 0], Len(values))

\* total_auxiliary_heating_runtime and total_emergency_heating_runtime
TotalHeatingRuntime(th, series, core_day_set) ==
    IF ~(th.has_auxiliary /\ th.has_emergency) THEN Raised("ValueError")
    ELSE [NoRet EXCEPT !.status = "ok",
                       !.value = Value(<<MaskedSum(series.values, core_day_set.hourly), 1>>)]

\* pd.cut(runtime_temp["temperature"], bins) of an hourly temperature
InHourlyBin(x, left, right) == ~IsNaN(x) /\ left < x /\ x <= right

\* the rows of runtime_temp[core_day_set.hourly] that fall in one bin
HoursOfBin(temperature, mask, left, right) ==
    SelectSeq([i \in DOMAIN temperature |-> i],
              LAMBDA i : mask[i] /\ InHourlyBin(temperature[i], left, right))

\* groupby("bins")[column].sum()
HourlySumOfBin(values, hours) ==
    SumLenient([k \in DOMAIN hours |-> values[hours[k]]])

\* (aux + emg) / (heat + emg) is NaN only as 0 / 0
HourlyRhuIsNumber(heat_runtime, aux_runtime, emg_runtime) ==
    heat_runtime + emg_runtime # 0 \/ aux_runtime + emg_runtime # 0

HourlyRhuOfBin(th, hours) ==
    HourlyRhuIsNumber(HourlySumOfBin(th.heat_runtime_hourly.values, hours),
                      HourlySumOfBin(th.auxiliary_heat_runtime.values, hours),
                      HourlySumOfBin(th.emergency_heat_runtime.values, hours))

\* runtime_rhu.dropna().index: the bins whose resistance heat utilization
\* is a number
HourlyBinsOf(th, temperature, mask, bins) ==
    {b \in 1..(Len(bins) - 1) :
        HourlyRhuOfBin(th, HoursOfBin(temperature, mask, bins[b], bins[b + 1]))}

\* a read of the scratch fields on behalf of a core day set
ScratchEvent(op, th, core_day_set) ==
    [op |-> op, set |-> core_day_set.name,
     heating_demand |-> th.heating_demand, tau |-> th.tau]

\* get_rh_metrics_daily: reads self.heating_demand
RhMetricsDaily(th, bins, core_day_set) ==
    [t |-> th, trace |-> <<ScratchEvent("get_rh_metrics_daily", th, core_day_set)>>]

\* get_rh_metrics_hourly: reads self.heating_demand and self.tau; past the
\* two early returns runtime_temp_baseline = self.runtime_heatpump_baseline
\* gets a "bins" column, and runtime_temp_baseline is the table itself
RhMetricsHourly(th, bins, core_day_set) ==
    [t |-> IF HourlyBinsOf(th, th.temperature_out, core_day_set.hourly, bins) = {}
              \/ Len(th.heating_demand.values) = 0
           THEN th
           ELSE [th EXCEPT !.runtime_heatpump_baseline = @ \cup {"bins"}],
     trace |-> <<ScratchEvent("get_rh_metrics_hourly", th, core_day_set)>>]

RhuRows(th, runtime_temp, bins, min_runtime_minutes) ==
    ResistanceHeatUtilizationBins(th, runtime_temp, bins, min_runtime_minutes).rhu

\* one pass of the loop over ("rhu1", "rhu2") after its
\* get_resistance_heat_utilization_runtime returned runtime_temp
RhuPass(th, core_heating_day_set, runtime_temp, min_runtime_minutes, daily, hourly) ==
    [t |-> hourly.t,
     trace |-> daily.trace \o hourly.trace,
     rhu |-> RhuRows(th, runtime_temp, RESISTANCE_HEAT_USE_BIN, min_runtime_minutes),
     rhu_wide |-> RhuRows(th, runtime_temp, RESISTANCE_HEAT_USE_WIDE_BIN,
                          min_runtime_minutes)]

RhuPassOf(th, core_heating_day_set, runtime_temp, min_runtime_minutes, daily) ==
    RhuPass(th, core_heating_day_set, runtime_temp, min_runtime_minutes, daily,
            RhMetricsHourly(daily.t, RESISTANCE_HEAT_USE_BIN, core_heating_day_set))

RhuPassFor(th, core_heating_day_set, runtime_temp, min_runtime_minutes) ==
    RhuPassOf(th, core_heating_day_set, runtime_temp, min_runtime_minutes,
              RhMetricsDaily(th, RESISTANCE_HEAT_USE_BIN, core_heating_day_set))

AuxEmergReturned(total_auxiliary, total_emergency, rhu1, rhu2) ==
    [status |-> "ok", exc |-> "", t |-> rhu2.t,
     trace |-> rhu1.trace \o rhu2.trace,
     additional_outputs |->
        [updated |-> TRUE,
         total_auxiliary_heating_core_day_runtime |-> total_auxiliary.value,
         total_emergency_heating_core_day_runtime |-> total_emergency.value,
         rhu1 |-> rhu1.rhu \o rhu1.rhu_wide,
         rhu2 |-> rhu2.rhu \o rhu2.rhu_wide]]

AuxEmergRaised(th, exc) ==
    [status |-> "raised", exc |-> exc, t |-> th, trace |-> <<>>,
     additional_outputs |-> NoAdditionalOutputs]

AuxEmergSecondPass(th, core_heating_day_set, total_auxiliary, total_emergency, runtime_temp, rhu1) ==
    AuxEmergReturned(total_auxiliary, total_emergency, rhu1,
                     RhuPassFor(rhu1.t, core_heating_day_set, runtime_temp,
                                VAR_MIN_RHU_RUNTIME))

AuxEmergPasses(th, core_heating_day_set, total_auxiliary, total_emergency, runtime) ==
    IF total_auxiliary.status = "raised" THEN AuxEmergRaised(th, total_auxiliary.exc)
    ELSE IF total_emergency.status = "raised"
    THEN AuxEmergRaised(th, total_emergency.exc)
    ELSE IF runtime.status = "raised" THEN AuxEmergRaised(th, runtime.exc)
    ELSE AuxEmergSecondPass(th, core_heating_day_set, total_auxiliary,
                            total_emergency, runtime.runtime_temp,
                            RhuPassFor(th, core_heating_day_set,
                                       runtime.runtime_temp, 0))

\* _calculate_aux_emerg_epa_field_savings_metrics: the two totals, then
\* for rhu1 and rhu2 the runtime table, its bins and the daily and hourly
\* diagnostics
CalculateAuxEmerg(th, core_heating_day_set) ==
    AuxEmergPasses(th, core_heating_day_set,
                   TotalHeatingRuntime(th, th.auxiliary_heat_runtime, core_heating_day_set),
                   TotalHeatingRuntime(th, th.emergency_heat_runtime, core_heating_day_set),
                   ResistanceHeatUtilizationRuntime(th, core_heating_day_set))

\* a stage that is left out
AuxEmergSkipped(th) ==
    [status |-> "ok", exc |-> "", t |-> th, trace |-> <<>>,
     additional_outputs |-> NoAdditionalOutputs]

\* if self.has_auxiliary and self.has_emergency: additional_outputs = ...
AuxEmergGate(th, core_heating_day_set) ==
    IF th.has_auxiliary /\ th.has_emergency
    THEN CalculateAuxEmerg(th, core_heating_day_set)
    ELSE AuxEmergSkipped(th)

\* the state of calculate_epa_field_savings_metrics between two core day
\* sets: the record, the metrics appended and the uses of the scratch fields
LoopState(th, metrics, trace, status, exc) ==
    [t |-> th, metrics |-> metrics, trace |-> trace, status |-> status, exc |-> exc]

\* outputs.update(additional_outputs); metrics.append(outputs)
HeatingAppended(state, core_heating_day_set, outputs, write, stage) ==
    IF stage.status = "raised"
    THEN LoopState(stage.t, state.metrics, state.trace \o <<write>>,
                   "raised", stage.exc)
    ELSE LoopState(stage.t,
                   Append(state.metrics,
                          [outputs EXCEPT !.additional_outputs = stage.additional_outputs]),
                   state.trace \o <<write>> \o stage.trace, "ok", "")

\* one heating core day set: the fit writes the scratch fields, then the
\* auxiliary / emergency stage
HeatingSetOf(state, core_heating_day_set, outputs, th) ==
    HeatingAppended(state, core_heating_day_set, outputs,
                    ScratchEvent("write", th, core_heating_day_set),
                    AuxEmergGate(th, core_heating_day_set))

\* a heating set whose fit leaves the scratch fields as they were
HeatingSetUnwritten(state, core_heating_day_set, d, outputs) ==
    HeatingSetOf(state, core_heating_day_set, outputs, state.t)

HeatingSet(state, core_heating_day_set, d, outputs) ==
    HeatingSetOf(state, core_heating_day_set, outputs, Scratch(state.t, d))

\* the loop over the core heating day sets from set k on
RECURSIVE HeatingLoopFrom(_, _, _, _, _)
HeatingLoopFrom(state, sets, demands, outputs, k) ==
    IF k > Len(sets) \/ state.status = "raised" THEN state
    ELSE HeatingLoopFrom(HeatingSet(state, sets[k], demands[k], outputs[k]),
                         sets, demands, outputs, k + 1)

HeatingLoop(state, sets, demands, regional) ==
    HeatingLoopFrom(state, sets, demands,
                    HeatingOutputs(state.t, sets, demands, regional), 1)

\* the loop over the core cooling day sets appends their outputs
CoolingLoop(state, outputs) ==
    IF state.status = "raised" THEN state
    ELSE [state EXCEPT !.metrics = @ \o outputs]

\* return metrics, or the exception that left the method
Finished(retval, state) ==
    [retval |-> retval,
     ret |-> IF state.status = "raised"
             THEN [Raised(state.exc) EXCEPT !.trace = state.trace]
             ELSE [NoRet EXCEPT !.status = "ok", !.metrics = state.metrics,
                                !.trace = state.trace],
     t |-> state.t]

\* the heating records appended before the cooling records
CalculatedHeatingFirst(th, cooling, heating, cooling_demands, heating_demands, retval) ==
    Finished(retval,
             CoolingLoop(
                HeatingLoop(LoopState(th, <<>>, <<>>, "ok", ""), heating.sets,
                            heating_demands,
                            retval.baseline_regional_heating_comfort_temperature),
                CoolingOutputs(th, cooling.sets, cooling_demands,
                               retval.baseline_regional_cooling_comfort_temperature)))

Calculated(th, cooling, heating, cooling_demands, heating_demands, retval) ==
    Finished(retval,
             HeatingLoop(
                CoolingLoop(LoopState(th, <<>>, <<>>, "ok", ""),
                            CoolingOutputs(th, cooling.sets, cooling_demands,
                                           retval.baseline_regional_cooling_comfort_temperature)),
                heating.sets, heating_demands,
                retval.baseline_regional_heating_comfort_temperature))

\* what retrieve_climate_zone returns for the zipcode: the regional comfort
\* temperatures of the climate zone in degrees, or None for a zipcode
\* without one
ClimateZones ==
    {[baseline_regional_cooling_comfort_temperature |-> NoneValue,
      baseline_regional_heating_comfort_temperature |-> NoneValue],
     [baseline_regional_cooling_comfort_temperature |-> Value(<<73, 1>>),
      baseline_regional_heating_comfort_temperature |-> Value(<<69, 1>>)]}

\* the calculation for each result the climate zone lookup may give
CalculatedFor(th, cooling, heating, cooling_demands, heating_demands, zones) ==
    {Calculated(th, cooling, heating, cooling_demands, heating_demands, retval) :
        retval \in zones}

\* the cooling loop, then the heating loop; an exception of a detection
\* leaves the method, and no list of metrics is returned
Calculation(th, cooling, heating, zones) ==
    IF cooling.status = "raised"
    THEN {[retval |-> retval, ret |-> cooling, t |-> th] : retval \in zones}
    ELSE IF heating.status = "raised"
    THEN {[retval |-> retval, ret |-> heating, t |-> th] : retval \in zones}
    ELSE UNION {CalculatedFor(th, cooling, heating,
                              CoolingDemands(th, cooling.sets, taus[1]),
                              HeatingDemands(th, heating.sets, taus[2]), zones) :
            taus \in TauChoices(LoopOutcomes(th, cooling.sets, "cooling",
                                             th.cool_runtime_daily))
                     \X TauChoices(LoopOutcomes(th, heating.sets, "heating",
                                                th.heat_runtime_daily))}

\* <<core_cooling_day_set_method, core_heating_day_set_method>>: the
\* defaults, entire_dataset for both, and a name the detector of one mode
\* does not accept
MethodPairs ==
    {<<"year_end_to_end", "year_mid_to_mid">>, <<"entire_dataset", "entire_dataset">>,
     <<"year_mid_to_mid", "year_mid_to_mid">>, <<"year_end_to_end", "year_end_to_end">>}

CalculateEpaFieldSavingsMetrics ==
    /\ phase = "ready"
    /\ call.op = "__init__"
    /\ \E m \in MethodPairs :
        \E o \in Calculation(t, CoolingLoopSets(t, m[1]), HeatingLoopSets(t, m[2]),
                             ClimateZones) :
            /\ call' = [op |-> "calculate_epa_field_savings_metrics",
                        core_cooling_day_set_method |-> m[1],
                        core_heating_day_set_method |-> m[2],
                        retval |-> o.retval]
            /\ ret' = o.ret
            /\ t' = o.t
    /\ UNCHANGED <<raw, phase>>

Next ==
    \/ Construct
    \/ GetCoreHeatingDays
    \/ GetCoreCoolingDays
    \/ GetHeatingDemand
    \/ GetCoolingDemand
    \/ CalculateEpaFieldSavingsMetrics

Spec == Init /\ [][Next]_vars

(***************************************************************************)
(* get_rh_metrics_daily, get_rh_metrics_hourly and fit_sigmoid_model       *)
(* called on their own.  A float whose value is not computed here (it      *)
(* depends on the error function or on the solver) is SomeFloat.           *)
(***************************************************************************)
SomeFloat == [none |-> FALSE, nan |-> FALSE, val |-> <<>>]

RhMetricNames ==
    {"dnru", "dnru_reduction", "mu_estimate", "sigma_estimate",
     "sigmoid_model_error", "sigmoid_integral", "aux_exceeds_heat_runtime"}

\* the mapping of the early returns: np.nan under every key
NaNMetrics == [f \in RhMetricNames |-> NaNValue]

MetricsReturned(rh_metrics) == [NoRet EXCEPT !.status = "ok", !.rh_metrics = rh_metrics]

\* one row of runtime_rhu of the metrics: the sums of the bin, n_points and
\* rhu = (aux + emg) / (heat + emg)
MetricsRow(left, right, heat_runtime, aux_runtime, emg_runtime, n_points) ==
    [left |-> left,
     right |-> right,
     heat_runtime |-> heat_runtime,
     aux_runtime |-> aux_runtime,
     emg_runtime |-> emg_runtime,
     n_points |-> n_points,
     rhu |-> Rhu(heat_runtime, aux_runtime, emg_runtime)]

DailyMetricsRow(rows, left, right) ==
    MetricsRow(left, right, SumLenient(Column(rows, "heat_runtime")),
               SumLenient(Column(rows, "aux_runtime")),
               SumLenient(Column(rows, "emg_runtime")), Len(rows))

\* runtime_temp.groupby("bins")[...].sum() with n_points = 1 on every day
DailyMetricsRhu(runtime_temp, bins) ==
    Array([b \in 1..(Len(bins) - 1) |->
            DailyMetricsRow(RowsOfBin(runtime_temp, bins[b], bins[b + 1]),
                            bins[b], bins[b + 1])])

HourlyMetricsRow(th, hours, left, right) ==
    MetricsRow(left, right, HourlySumOfBin(th.heat_runtime_hourly.values, hours),
               HourlySumOfBin(th.auxiliary_heat_runtime.values, hours),
               HourlySumOfBin(th.emergency_heat_runtime.values, hours), Len(hours))

\* runtime_temp[core_day_set.hourly].groupby("bins")[...].sum() with
\* n_points = 1 on every hour
HourlyMetricsRhu(th, core_day_set, bins) ==
    Array([b \in 1..(Len(bins) - 1) |->
            HourlyMetricsRow(th, HoursOfBin(th.temperature_out, core_day_set.hourly,
                                            bins[b], bins[b + 1]),
                             bins[b], bins[b + 1])])

\* len(runtime_rhu.dropna().index) == 0
NoRhu(runtime_rhu) == \A b \in DOMAIN runtime_rhu : runtime_rhu[b].rhu.nan

\* the bins calc_estimates of fit_sigmoid_model keeps: dropna() and
\* n_points > n_points_threshold
SigmoidPoints(runtime_rhu, n_points_threshold) ==
    {b \in DOMAIN runtime_rhu :
        ~runtime_rhu[b].rhu.nan /\ runtime_rhu[b].n_points > n_points_threshold}

\* least_squares raises ValueError when the residual at the initial
\* parameters is not finite: sqrt(0 / 0) over no bin, or an infinite rhu
ResidualNotFinite(runtime_rhu, points) ==
    points = {} \/ \E b \in points : runtime_rhu[b].rhu.val[2] = 0

SigmoidEstimates(value) ==
    [status |-> "ok",
     mu_estimate |-> value,
     sigma_estimate |-> value,
     sigmoid_model_error |-> value,
     sigmoid_integral |-> value]

\* fit_sigmoid_model without its except clause
FitSigmoidModelUncaught(runtime_rhu, n_points_threshold, solve) ==
    IF solve = "raises"
          \/ ResidualNotFinite(runtime_rhu,
                               SigmoidPoints(runtime_rhu, n_points_threshold))
    THEN [SigmoidEstimates(NoneValue) EXCEPT !.status = "raised"]
    ELSE SigmoidEstimates(SomeFloat)

\* fit_sigmoid_model: try: least_squares(...) ... except: all four None;
\* solve is what the library does on a finite residual
FitSigmoidModel(runtime_rhu, n_points_threshold, solve) ==
    IF solve = "raises"
          \/ ResidualNotFinite(runtime_rhu,
                               SigmoidPoints(runtime_rhu, n_points_threshold))
    THEN SigmoidEstimates(NoneValue)
    ELSE SigmoidEstimates(SomeFloat)

\* the index of the bin of pd.cut, 0 for a temperature in no bin
BinIndex(temperature, bins) ==
    IF \E b \in 1..(Len(bins) - 1) :
            InBin([temperature |-> temperature], bins[b], bins[b + 1])
    THEN CHOOSE b \in 1..(Len(bins) - 1) :
            InBin([temperature |-> temperature], bins[b], bins[b + 1])
    ELSE 0

\* get_binned_demand_daily merged with runtime_rhu on the bin: the days of
\* the demand whose daily mean outdoor temperature falls in a bin
BinnedDemandRows(th, heating_demand, bins) ==
    SelectSeq(Array([k \in DOMAIN heating_demand.values |->
                [demand |-> heating_demand.values[k],
                 bin |-> BinIndex(DailyMean(DaySlice(th.temperature_out,
                                                     heating_demand.index[k])),
                                  bins)]]),
              LAMBDA row : row.bin # 0)

\* demand * rhu of one row
RhuNorm(demand, rhu) ==
    IF rhu.nan \/ (rhu.val[2] = 0 /\ demand = 0) THEN NaNValue
    ELSE IF rhu.val[2] = 0 THEN Value(<<1, 0>>)
    ELSE Value(<<demand * rhu.val[1], rhu.val[2]>>)

\* demand * (rhu_baseline - rhu) of one row
RhuNormReduction(demand, rhu, rhu_baseline) ==
    IF rhu.nan \/ (rhu.val[2] = 0 /\ demand = 0) THEN NaNValue
    ELSE IF rhu.val[2] = 0 THEN Value(<<0 - 1, 0>>)
    ELSE Value(<<demand * (rhu_baseline[1] * rhu.val[2] - rhu.val[1] * rhu_baseline[2]),
                 rhu_baseline[2] * rhu.val[2]>>)

AddFraction(x, y) == Lowest(<<x[1] * y[2] + y[1] * x[2], x[2] * y[2]>>)

RECURSIVE SumFractions(_, _)
SumFractions(xs, n) ==
    IF n = 0 THEN <<0, 1>>
    ELSE IF xs[n].nan THEN SumFractions(xs, n - 1)
    ELSE AddFraction(xs[n].val, SumFractions(xs, n - 1))

\* Series.sum(): NaN is skipped and an infinite term makes the sum infinite
SumOfFloats(xs) ==
    IF \E k \in DOMAIN xs : ~xs[k].nan /\ xs[k].val[2] = 0
    THEN Value((CHOOSE k \in DOMAIN xs : ~xs[k].nan /\ xs[k].val[2] = 0).val)
    ELSE Value(SumFractions(xs, Len(xs)))

TotalDemand(rows) == Value(<<SumSeq(Column(rows, "demand")), 1>>)

\* binned_demand.rhu_norm.sum() / binned_demand.demand.sum()
Dnru(rows, runtime_rhu) ==
    Divide(SumOfFloats(Array([k \in DOMAIN rows |->
                RhuNorm(rows[k].demand, runtime_rhu[rows[k].bin].rhu)])),
           TotalDemand(rows))

\* binned_demand.rhu_norm_reduction.sum() / binned_demand.demand.sum()
DnruReduction(rows, runtime_rhu, rhu_baseline) ==
    Divide(SumOfFloats(Array([k \in DOMAIN rows |->
                RhuNormReduction(rows[k].demand, runtime_rhu[rows[k].bin].rhu,
                                 rhu_baseline)])),
           TotalDemand(rows))

\* any(runtime_rhu.aux_runtime > runtime_rhu.heat_runtime), True as 1.0
AuxExceedsHeat(runtime_rhu) ==
    IF \E b \in DOMAIN runtime_rhu :
            runtime_rhu[b].aux_runtime > runtime_rhu[b].heat_runtime
    THEN Value(<<1, 1>>) ELSE Value(<<0, 1>>)

\* the mapping returned after fit_sigmoid_model
RhMetrics(dnru, dnru_reduction, fit, aux_exceeds_heat_runtime) ==
    IF fit.status = "raised" THEN Raised("ValueError")
    ELSE MetricsReturned(
            [dnru |-> dnru,
             dnru_reduction |-> dnru_reduction,
             mu_estimate |-> fit.mu_estimate,
             sigma_estimate |-> fit.sigma_estimate,
             sigmoid_model_error |-> fit.sigmoid_model_error,
             sigmoid_integral |-> fit.sigmoid_integral,
             aux_exceeds_heat_runtime |-> aux_exceeds_heat_runtime])

DailyMetricsOf(rows, runtime_rhu, rhu_baseline, solve) ==
    RhMetrics(Dnru(rows, runtime_rhu), DnruReduction(rows, runtime_rhu, rhu_baseline),
              FitSigmoidModel(runtime_rhu, 2, solve), AuxExceedsHeat(runtime_rhu))

DailyMetrics(th, bins, runtime_rhu, rhu_baseline, solve) ==
    IF th.heating_demand = None \/ NoRhu(runtime_rhu) THEN MetricsReturned(NaNMetrics)
    ELSE IF Len(th.heating_demand.values) = 0 THEN MetricsReturned(NaNMetrics)
    ELSE DailyMetricsOf(BinnedDemandRows(th, th.heating_demand, bins), runtime_rhu,
                        rhu_baseline, solve)

\* what get_rh_metrics_daily returns; rhu_baseline is the rhu_baseline of
\* the bins of the baseline table
RhMetricsDailyValue(th, bins, core_day_set, rhu_baseline, solve) ==
    IF ~th.has_resistance_heat THEN Raised("ValueError")
    ELSE IF ~(th.has_auxiliary /\ th.has_emergency) THEN Raised("ValueError")
    ELSE DailyMetrics(th, bins, DailyMetricsRhu(RuntimeTemp(th, core_day_set), bins),
                      rhu_baseline, solve)

HourlyMetrics(th, runtime_rhu, solve) ==
    IF NoRhu(runtime_rhu) THEN MetricsReturned(NaNMetrics)
    ELSE IF th.heating_demand = None THEN Raised("TypeError")
    ELSE IF Len(th.heating_demand.values) = 0 THEN MetricsReturned(NaNMetrics)
    ELSE RhMetrics(SomeFloat, SomeFloat, FitSigmoidModel(runtime_rhu, 48, solve),
                   AuxExceedsHeat(runtime_rhu))

\* what get_rh_metrics_hourly returns: len(self.heating_demand) follows the
\* test of runtime_rhu and is not preceded by a test for None
RhMetricsHourlyValue(th, bins, core_day_set, solve) ==
    IF ~th.has_resistance_heat THEN Raised("ValueError")
    ELSE IF ~(th.has_auxiliary /\ th.has_emergency) THEN Raised("ValueError")
    ELSE HourlyMetrics(th, HourlyMetricsRhu(th, core_day_set, bins), solve)

\* the rhu_baseline of the bins of the heat pump baseline table
BaselineRhu == {<<0, 1>>, <<1, 2>>}

SolveOutcomes == {"returns", "raises"}

\* the heating core day sets at hand: the ones a detection returned, or
\* the ones of the calculation that has run
HeatingSetsAtHand ==
    IF call.op = "get_core_heating_days" /\ ret.status = "ok" THEN Range(ret.sets)
    ELSE IF call.op = "calculate_epa_field_savings_metrics" /\ ret.status = "ok"
    THEN Range(HeatingLoopSets(t, call.core_heating_day_set_method).sets)
    ELSE {}

GetRhMetricsDaily ==
    /\ phase = "ready"
    /\ \E c \in HeatingSetsAtHand, rhu_baseline \in BaselineRhu, solve \in SolveOutcomes :
        /\ call' = [op |-> "get_rh_metrics_daily", core_day_set |-> c,
                    bins |-> RESISTANCE_HEAT_USE_BIN,
                    rhu_baseline |-> rhu_baseline, solve |-> solve]
        /\ ret' = RhMetricsDailyValue(t, RESISTANCE_HEAT_USE_BIN, c, rhu_baseline, solve)
    /\ UNCHANGED <<raw, phase, t>>

GetRhMetricsHourly ==
    /\ phase = "ready"
    /\ \E c \in HeatingSetsAtHand, solve \in SolveOutcomes :
        /\ call' = [op |-> "get_rh_metrics_hourly", core_day_set |-> c,
                    bins |-> RESISTANCE_HEAT_USE_BIN, solve |-> solve]
        /\ ret' = RhMetricsHourlyValue(t, RESISTANCE_HEAT_USE_BIN, c, solve)
        /\ t' = IF ret'.status = "ok"
                THEN RhMetricsHourly(t, RESISTANCE_HEAT_USE_BIN, c).t ELSE t
    /\ UNCHANGED <<raw, phase>>

(***************************************************************************)
(* The hour-of-year index of get_baseline_hourly_heating_demand and        *)
(* get_baseline_hourly_cooling_demand, which joins the hours of a core day *)
(* set with the hourly regional baseline table.                            *)
(***************************************************************************)
\* DatetimeIndex.dayofyear
DayOfYear(y, m, d) == DaysBeforeMonth(y, m) + d

\* (df.index.is_leap_year) & (df.index.dayofyear >= 59), as 0 or 1
LeapAdjustment(y, m, d) == IF IsLeap(y) /\ DayOfYear(y, m, d) >= 59 THEN 1 ELSE 0

\* 1 + hour + (dayofyear - 1 - leap_adjustment) * 24
HourOfYear(y, m, d, h) ==
    1 + h + (DayOfYear(y, m, d) - 1 - LeapAdjustment(y, m, d)) * HoursPerDay

\* a common year and a leap year
Years == {2011, 2012}

\* the first hour of a day, noon and the last hour
Hours == {0, 12, HoursPerDay - 1}

Timestamps ==
    {ts \in [year : Years, month : 1..12, day : 1..31, hour : Hours] :
        ts.day <= DaysInMonth(ts.year, ts.month)}

InitHourOfYear ==
    /\ raw \in Timestamps
    /\ phase = "new"
    /\ t = NoThermostat
    /\ call = NoCall
    /\ ret = NoRet

\* the hour_of_year column of the row of one timestamp
HourOfYearCall ==
    /\ phase = "new"
    /\ \E op \in {"get_baseline_hourly_heating_demand",
                  "get_baseline_hourly_cooling_demand"} :
        call' = [op |-> op]
    /\ ret' = [NoRet EXCEPT
                !.status = "ok",
                !.value = Value(<<HourOfYear(raw.year, raw.month, raw.day, raw.hour), 1>>)]
    /\ phase' = "done"
    /\ UNCHANGED <<raw, t>>

NextHourOfYear == HourOfYearCall

SpecHourOfYear == InitHourOfYear /\ [][NextHourOfYear]_vars

NextSavings == PercentSavingsCall

NextResistance ==
    \/ Construct
    \/ GetCoreHeatingDays
    \/ GetResistanceHeatUtilizationRuntime
    \/ GetResistanceHeatUtilizationBins
    \/ CalculateEpaFieldSavingsMetrics

SpecResistance == InitResistance /\ [][NextResistance]_vars

SpecSavings == InitSavings /\ [][NextSavings]_vars

\* the resistance heat metrics called on their own, before and after a
\* calculation
NextMetrics ==
    \/ Construct
    \/ GetCoreHeatingDays
    \/ CalculateEpaFieldSavingsMetrics
    \/ GetRhMetricsDaily
    \/ GetRhMetricsHourly

SpecMetrics == InitMetrics /\ [][NextMetrics]_vars

(***************************************************************************)
(* Properties.                                                             *)
(***************************************************************************)
HeatingDetected == call.op = "get_core_heating_days" /\ ret.status = "ok"

CoolingDetected == call.op = "get_core_cooling_days" /\ ret.status = "ok"

\* the calendar date of entry d of the daily mask of a core day set
DateIn(c, d) == c.daily_start + d - 1

\* C1: in every core day set a detector returns, the hourly mask is 24
\* times as long as the daily mask, starts at the first day of the daily
\* index, and hour h of day d is True exactly when day d is True.
C1_HourlyIsDailyBroadcast ==
    (HeatingDetected \/ CoolingDetected) =>
        \A k \in DOMAIN ret.sets :
            /\ Len(ret.sets[k].hourly) = 24 * Len(ret.sets[k].daily)
            /\ ret.sets[k].hourly_start = ret.sets[k].daily_start
            /\ \A d \in DOMAIN ret.sets[k].daily : \A h \in 0..23 :
                ret.sets[k].hourly[(d - 1) * 24 + h + 1] = ret.sets[k].daily[d]

\* a returned set of several days, some of them True and some False
C1_Witness ==
    /\ HeatingDetected \/ CoolingDetected
    /\ \E k \in DOMAIN ret.sets :
        /\ Len(ret.sets[k].daily) >= 2
        /\ ret.sets[k].daily[1]
        /\ \E d \in DOMAIN ret.sets[k].daily : ~ret.sets[k].daily[d]

\* the number of missing hourly readings of day d
MissingHours(temp, d) ==
    Cardinality({i \in DOMAIN temp : (i - 1) \div 24 + 1 = d /\ IsNaN(temp[i])})

Qualifies(primary, has_secondary, secondary, d) ==
    /\ ~IsNaN(primary[d]) /\ primary[d] >= call.min_minutes
    /\ has_secondary =>
        /\ d \in DOMAIN secondary
        /\ ~IsNaN(secondary[d]) /\ secondary[d] <= call.max_minutes
    /\ MissingHours(t.temperature_in, d) <= 2
    /\ MissingHours(t.temperature_out, d) <= 2

EntireDataset(primary, has_secondary, secondary) ==
    /\ Len(ret.sets) = 1
    /\ DOMAIN ret.sets[1].daily = DOMAIN primary
    /\ \A d \in DOMAIN primary :
        ret.sets[1].daily[d] <=> Qualifies(primary, has_secondary, secondary, d)

\* a heating-only thermostat whose heat runs RunMinutes on every day, with
\* no temperature reading missing
ConstantHeatScenario ==
    /\ ~t.has_cooling
    /\ \A d \in DOMAIN t.heat_runtime_daily : t.heat_runtime_daily[d] = RunMinutes
    /\ \A i \in DOMAIN raw.temperature_in : ~IsNaN(raw.temperature_in[i])
    /\ \A i \in DOMAIN raw.temperature_out : ~IsNaN(raw.temperature_out[i])
    /\ call.min_minutes <= RunMinutes

\* C2: with method entire_dataset one set is returned, and a day is True in
\* its daily mask exactly when the primary daily runtime is at least the
\* minimum, the secondary daily runtime is at most the maximum (no test
\* when the thermostat lacks the secondary capability) and the indoor and
\* the outdoor temperature of the record each miss at most 2 hours of the
\* day; a heating-only thermostat with constant heat runtime on every day
\* and full temperature data has every day in its heating set.
C2_EntireDatasetThresholds ==
    /\ (HeatingDetected /\ call.method = "entire_dataset") =>
        /\ EntireDataset(t.heat_runtime_daily, t.has_cooling, t.cool_runtime_daily)
        /\ ConstantHeatScenario =>
            \A d \in DOMAIN t.heat_runtime_daily : ret.sets[1].daily[d]
    /\ (CoolingDetected /\ call.method = "entire_dataset") =>
        EntireDataset(t.cool_runtime_daily, t.has_heating, t.heat_runtime_daily)

\* the constant-heat scenario over ScenarioDays days, every day included
C2_Witness ==
    /\ HeatingDetected /\ call.method = "entire_dataset"
    /\ ConstantHeatScenario
    /\ Len(ret.sets[1].daily) = ScenarioDays
    /\ \A d \in DOMAIN ret.sets[1].daily : ret.sets[1].daily[d]

IsJuly1(date) == date = Date(YearOf(date), 7, 1)

IsJanuary1(date) == date = Date(YearOf(date), 1, 1)

\* C3: a day dated July 1 of year Y is True only in the year_mid_to_mid set
\* named heating_Y-(Y+1), and a day dated January 1 of year Y is True only
\* in the year_end_to_end set named cooling_Y.
C3_WindowsLeftClosed ==
    /\ (HeatingDetected /\ call.method = "year_mid_to_mid") =>
        \A k \in DOMAIN ret.sets : \A d \in DOMAIN ret.sets[k].daily :
            (ret.sets[k].daily[d] /\ IsJuly1(DateIn(ret.sets[k], d))) =>
                ret.sets[k].name =
                    YearsName("heating", YearOf(DateIn(ret.sets[k], d)),
                              YearOf(DateIn(ret.sets[k], d)) + 1)
    /\ (CoolingDetected /\ call.method = "year_end_to_end") =>
        \A k \in DOMAIN ret.sets : \A d \in DOMAIN ret.sets[k].daily :
            (ret.sets[k].daily[d] /\ IsJanuary1(DateIn(ret.sets[k], d))) =>
                ret.sets[k].name =
                    YearsName("cooling", YearOf(DateIn(ret.sets[k], d)),
                              YearOf(DateIn(ret.sets[k], d)))

\* a July 1 that is True in a returned set, the day before it in the data
C3_Witness ==
    /\ HeatingDetected /\ call.method = "year_mid_to_mid"
    /\ \E k \in DOMAIN ret.sets : \E d \in DOMAIN ret.sets[k].daily :
        /\ d > 1
        /\ ret.sets[k].daily[d]
        /\ IsJuly1(DateIn(ret.sets[k], d))

PeriodDetected ==
    \/ HeatingDetected /\ call.method = "year_mid_to_mid"
    \/ CoolingDetected /\ call.method = "year_end_to_end"

\* C4: no day is True in the daily masks of two sets that one period-based
\* detection returns.
C4_PeriodSetsDisjoint ==
    PeriodDetected =>
        \A j \in DOMAIN ret.sets : \A k \in DOMAIN ret.sets :
            j # k => \A d \in DOMAIN ret.sets[j].daily :
                        ~(ret.sets[j].daily[d] /\ ret.sets[k].daily[d])

\* a period-based detection that returns two sets
C4_Witness == PeriodDetected /\ Len(ret.sets) >= 2

\* a detection call for a mode whose runtime series was zero-length at
\* construction
ZeroLengthDetection ==
    \/ call.op = "get_core_heating_days" /\ raw.heat_runtime.values = <<>>
    \/ call.op = "get_core_cooling_days" /\ raw.cool_runtime.values = <<>>

AcceptedMethod ==
    \/ call.op = "get_core_heating_days" /\ call.method \in HeatingMethods
    \/ call.op = "get_core_cooling_days" /\ call.method \in CoolingMethods

MissingHour(hourly, d) ==
    \E i \in DOMAIN hourly : (i - 1) \div 24 + 1 = d /\ IsNaN(hourly[i])

StrictSums(hourly, daily) ==
    \A d \in DOMAIN daily : MissingHour(hourly.values, d) => IsNaN(daily[d])

\* no day with a missing primary or (with the capability) secondary daily
\* runtime is True in a returned set
NoMissingDay(primary, has_secondary, secondary) ==
    \A k \in DOMAIN ret.sets : \A d \in DOMAIN ret.sets[k].daily :
        ret.sets[k].daily[d] =>
            /\ ~IsNaN(primary[d])
            /\ has_secondary => ~IsNaN(secondary[d])

\* C6: a missing hour in a runtime series makes the daily sum of its day
\* missing, and a day whose primary or (with the capability) secondary
\* daily runtime is missing is True in no core day set of either mode.
C6_StrictDailySums ==
    /\ phase = "ready" =>
        /\ StrictSums(raw.heat_runtime, t.heat_runtime_daily)
        /\ StrictSums(raw.cool_runtime, t.cool_runtime_daily)
    /\ HeatingDetected =>
        NoMissingDay(t.heat_runtime_daily, t.has_cooling, t.cool_runtime_daily)
    /\ CoolingDetected =>
        NoMissingDay(t.cool_runtime_daily, t.has_heating, t.heat_runtime_daily)

\* a day with enough cooling whose heating runtime misses an hour, left out
\* of the cooling set
C6_Witness ==
    /\ CoolingDetected /\ call.method = "entire_dataset"
    /\ \E d \in DOMAIN t.cool_runtime_daily :
        /\ MissingHour(raw.heat_runtime.values, d)
        /\ IsNaN(t.heat_runtime_daily[d])
        /\ ~IsNaN(t.cool_runtime_daily[d])
        /\ t.cool_runtime_daily[d] >= call.min_minutes
        /\ ~ret.sets[1].daily[d]

\* sample i of a series lies in a run of two or more missing samples
InLongRun(s, i) ==
    /\ IsNaN(s[i])
    /\ \/ i > 1 /\ IsNaN(s[i - 1])
       \/ i < Len(s) /\ IsNaN(s[i + 1])

\* sample i is a single missing sample between two valid ones
Isolated(s, i) ==
    /\ IsNaN(s[i])
    /\ i > 1 /\ ~IsNaN(s[i - 1])
    /\ i < Len(s) /\ ~IsNaN(s[i + 1])

OnlyIsolatedFilled(before, after) ==
    \A i \in DOMAIN before :
        /\ InLongRun(before, i) => IsNaN(after[i])
        /\ Isolated(before, i) => ~IsNaN(after[i])

\* C7: construction fills the isolated single missing temperature samples,
\* and every sample of a run of two or more missing samples is still
\* missing after construction.
C7_OnlySingleGapsFilled ==
    phase = "ready" =>
        /\ OnlyIsolatedFilled(raw.temperature_in, t.temperature_in)
        /\ OnlyIsolatedFilled(raw.temperature_out, t.temperature_out)

ValidationFails ==
    \/ raw.equip.has_heating /\ raw.heat_runtime.values = <<>>
    \/ raw.equip.has_cooling /\ raw.cool_runtime.values = <<>>
    \/ /\ raw.equip.has_auxiliary /\ raw.equip.has_emergency
       /\ raw.auxiliary_heat_runtime = None \/ raw.emergency_heat_runtime = None

AllZero(arg) ==
    arg.kind = "Series" /\ \A i \in DOMAIN arg.values : arg.values[i] = 0

\* C8: construction raises and produces no record when the equipment has
\* heating and the heating runtime is zero-length, has cooling and the
\* cooling runtime is zero-length, or has auxiliary and emergency heat and
\* one of the two series is None; with all-zero auxiliary and emergency
\* series the auxiliary / emergency validation passes.
C8_ValidationRaises ==
    call.op = "__init__" =>
        /\ ValidationFails =>
            /\ phase = "failed"
            /\ t = NoThermostat
            /\ ret.status = "raised" /\ ret.exc = "ValueError"
        /\ (/\ AllZero(raw.auxiliary_heat_runtime)
            /\ AllZero(raw.emergency_heat_runtime)
            /\ ~(raw.equip.has_heating /\ raw.heat_runtime.values = <<>>)
            /\ ~(raw.equip.has_cooling /\ raw.cool_runtime.values = <<>>)) =>
            phase = "ready" /\ ret.status = "ok"

\* a heat pump with runtime data and exactly one of the auxiliary and
\* emergency series None, refused
C8_Witness ==
    /\ call.op = "__init__"
    /\ raw.equip.has_auxiliary /\ raw.equip.has_emergency
    /\ raw.heat_runtime.values # <<>> /\ raw.cool_runtime.values # <<>>
    /\ (raw.auxiliary_heat_runtime = None) # (raw.emergency_heat_runtime = None)
    /\ phase = "failed"

DetectorCalled ==
    call.op = "get_core_heating_days" \/ call.op = "get_core_cooling_days"

Calculating == call.op = "calculate_epa_field_savings_metrics"

\* a detector given a method name outside its accepted set raises before
\* the capability check and returns no set
DetectorsRaiseFirst ==
    (DetectorCalled /\ ~AcceptedMethod) =>
        /\ ret.status = "raised"
        /\ ret.exc = "NotImplementedError"
        /\ ret.sets = <<>>

Aborted == ret.status = "raised" /\ ret.metrics = <<>>

\* C9 as the specification states it: the detectors raise first on a
\* method name they do not accept, and calculate_epa_field_savings_metrics
\* given such a method name aborts without returning a metrics record.
C9_UnknownMethodAborts ==
    /\ DetectorsRaiseFirst
    /\ (/\ Calculating
        /\ \/ call.core_cooling_day_set_method \notin CoolingMethods
           \/ call.core_heating_day_set_method \notin HeatingMethods) =>
        Aborted

\* C9, amended: the detectors raise first on a method name they do not
\* accept; calculate_epa_field_savings_metrics aborts without returning a
\* metrics record when the method name it cannot use belongs to a mode the
\* thermostat has (the cooling method with has_cooling, the heating method
\* with has_heating), and leaves the record as it was.
C9_UnknownMethodOfHeldModeAborts ==
    /\ DetectorsRaiseFirst
    /\ (/\ Calculating
        /\ \/ t.has_cooling /\ call.core_cooling_day_set_method \notin CoolingMethods
           \/ t.has_heating /\ call.core_heating_day_set_method \notin HeatingMethods) =>
        /\ Aborted
        /\ ret.exc = "NotImplementedError"
        /\ t = NewThermostat(raw)

\* a thermostat with cooling and a cooling method name that is not
\* accepted: the calculation aborts
C9_Witness ==
    /\ Calculating
    /\ t.has_cooling
    /\ call.core_cooling_day_set_method \notin CoolingMethods
    /\ Aborted

DemandCalled == call.op = "get_heating_demand" \/ call.op = "get_cooling_demand"

AllNaN(d) ==
    /\ IsNaN(d.tau)
    /\ d.alpha.nan /\ d.mse.nan /\ d.rmse.nan /\ d.cvrmse.nan
    /\ d.mape.nan /\ d.mae.nan

\* C10: get_heating_demand and get_cooling_demand given a core day set
\* without a True day do not raise; they return an empty demand series
\* over the empty set of included days, and NaN for tau, alpha, mse, rmse,
\* cvrmse, mape and mae.
C10_EmptySetDemand ==
    (DemandCalled /\ ~AnyTrue(call.core_day_set.daily)) =>
        /\ ret.status = "ok"
        /\ ret.demand.demand = <<>>
        /\ ret.demand.index = <<>>
        /\ AllNaN(ret.demand)

\* the all-False core day set over a record of several days
C10_Witness ==
    /\ DemandCalled
    /\ call.core_day_set.name.mode = "empty"
    /\ Len(call.core_day_set.daily) >= 2
    /\ ~AnyTrue(call.core_day_set.daily)
    /\ ret.status = "ok"

\* C11: percent_savings(avoided, baseline) is 100 times the mean of avoided
\* over the mean of baseline for equally long series with a non-zero
\* baseline mean; for baseline [100, 200] and avoided [10, 20] it is 10.
C11_PercentSavings ==
    (call.op = "percent_savings" /\ SumSeq(raw.baseline) # 0) =>
        /\ ~ret.value.nan
        /\ ret.value.val[2] # 0
        /\ ret.value.val[1] * SumSeq(raw.baseline)
               = 100 * SumSeq(raw.avoided) * ret.value.val[2]
        /\ (raw.baseline = <<100, 200>> /\ raw.avoided = <<10, 20>>) =>
                ret.value.val[1] = 10 * ret.value.val[2]

\* the literal example, applied
C11_Witness ==
    /\ call.op = "percent_savings"
    /\ raw.baseline = <<100, 200>> /\ raw.avoided = <<10, 20>>
    /\ ret.status = "ok"

\* C12: when the regional comfort temperatures are None, the calculation
\* returns without an exception, every field derived from the regional
\* baseline is None in every record, and the fields of the percentile
\* baseline are still computed (none of them is None).
RegionalAbsent ==
    /\ Calculating
    /\ call.retval.baseline_regional_cooling_comfort_temperature.none
    /\ call.retval.baseline_regional_heating_comfort_temperature.none

BaselineFieldNames ==
    {"percent_savings", "avoided_daily_mean_core_day_runtime",
     "avoided_total_core_day_runtime", "baseline_daily_mean_core_day_runtime",
     "baseline_total_core_day_runtime", "daily_mean_core_day_demand_baseline"}

\* the method names are ones the detectors of the modes the thermostat has
\* accept
MethodsUsable ==
    /\ t.has_cooling => call.core_cooling_day_set_method \in CoolingMethods
    /\ t.has_heating => call.core_heating_day_set_method \in HeatingMethods

C12_RegionalAbsentFieldsNone ==
    (RegionalAbsent /\ MethodsUsable) =>
        /\ ret.status = "ok"
        /\ \A k \in DOMAIN ret.metrics :
            /\ DOMAIN ret.metrics[k].baseline_regional = BaselineFieldNames
            /\ \A f \in BaselineFieldNames :
                /\ ret.metrics[k].baseline_regional[f] = NoneValue
                /\ ~ret.metrics[k].baseline_percentile[f].none

\* a calculation without regional temperatures that returned a record whose
\* percentile savings are a number
C12_Witness ==
    /\ RegionalAbsent
    /\ ret.status = "ok"
    /\ \E k \in DOMAIN ret.metrics :
        /\ ret.metrics[k].baseline_regional.percent_savings = NoneValue
        /\ ~ret.metrics[k].baseline_percentile.percent_savings.nan
        /\ ret.metrics[k].baseline_percentile.percent_savings.val[2] # 0

BinsCalled == call.op = "get_resistance_heat_utilization_bins"

\* the sum of a column over the rows of runtime_temp that fall into bin b
SumOfBin(runtime_temp, bins, b, name) ==
    SumLenient(Column(RowsOfBin(runtime_temp, bins[b], bins[b + 1]), name))

Nonsense(b) ==
    SumOfBin(call.runtime_temp, call.bins, b, "aux_runtime")
        > SumOfBin(call.runtime_temp, call.bins, b, "heat_runtime")

\* C13: get_resistance_heat_utilization_bins of a thermostat with the
\* capabilities does not raise; it returns one row per bin, and every bin
\* whose summed auxiliary runtime exceeds its summed heat runtime has
\* rhu = NaN and a warning, while no warning is emitted for another bin.
C13_NonsenseBinIsNaN ==
    BinsCalled =>
        /\ ret.status = "ok"
        /\ Len(ret.rhu) = Len(call.bins) - 1
        /\ \A b \in DOMAIN ret.rhu :
            /\ ret.rhu[b].left = call.bins[b] /\ ret.rhu[b].right = call.bins[b + 1]
            /\ Nonsense(b) => ret.rhu[b].rhu = NaNValue
            /\ Nonsense(b) <=> <<call.bins[b], call.bins[b + 1]>> \in ret.warnings

\* a table with a bin of aux 50 and heat 30, whose rhu is NaN, next to a
\* bin whose rhu is a number
C13_Witness ==
    /\ BinsCalled
    /\ ret.status = "ok"
    /\ \E b \in DOMAIN ret.rhu :
        /\ ret.rhu[b].aux_runtime = 50 /\ ret.rhu[b].heat_runtime = 30
        /\ ret.rhu[b].rhu.nan
        /\ <<ret.rhu[b].left, ret.rhu[b].right>> \in ret.warnings
    /\ \E b \in DOMAIN ret.rhu : ~ret.rhu[b].rhu.nan

\* the rows of runtime_temp of the days the daily mask selects
RowsOfCoreDays(runtime_temp, daily) ==
    SelectSeq(runtime_temp, LAMBDA row : daily[row.day])

\* C17 as the specification states it: every bin of the binned RHU of a
\* core heating day set sums the heat, auxiliary and emergency runtime of
\* the days of its temperature interval that the daily mask selects, and of
\* no other day.
C17_OnlyCoreDaysBinned ==
    (BinsCalled /\ ret.status = "ok") =>
        \A b \in DOMAIN ret.rhu :
            \A name \in {"heat_runtime", "aux_runtime", "emg_runtime"} :
                ret.rhu[b][name] =
                    SumOfBin(RowsOfCoreDays(call.runtime_temp, call.core_day_set.daily),
                             call.bins, b, name)

\* the core day sets the detectors give for the method names of the call
DetectedCooling ==
    IF t.has_cooling
    THEN CoreCoolingDays(t, call.core_cooling_day_set_method,
                         DefaultMinMinutes, DefaultMaxMinutes).sets
    ELSE <<>>

DetectedHeating ==
    IF t.has_heating
    THEN CoreHeatingDays(t, call.core_heating_day_set_method,
                         DefaultMinMinutes, DefaultMaxMinutes).sets
    ELSE <<>>

\* the records of the cooling sets, then the records of the heating sets
OneRecordPerSet(metrics, cooling, heating) ==
    /\ Len(metrics) = Len(cooling) + Len(heating)
    /\ \A k \in DOMAIN cooling :
        metrics[k].heating_or_cooling = cooling[k].name
    /\ \A k \in DOMAIN heating :
        metrics[Len(cooling) + k].heating_or_cooling = heating[k].name

\* C14: the list calculate_epa_field_savings_metrics returns has one record
\* per detected core day set: its length is the number of cooling sets (if
\* has_cooling) plus the number of heating sets (if has_heating), the
\* cooling records come first, each group is in detection order, and
\* heating_or_cooling of every record is the name of its set.
C14_OneRecordPerSet ==
    (Calculating /\ ret.status = "ok") =>
        OneRecordPerSet(ret.metrics, DetectedCooling, DetectedHeating)

\* a returned list of two records, the record of a cooling set followed by
\* the record of a heating set
C14_Witness ==
    /\ Calculating
    /\ ret.status = "ok"
    /\ Len(ret.metrics) = 2
    /\ Len(DetectedCooling) = 1
    /\ ret.metrics[1].heating_or_cooling.mode = "cooling"
    /\ ret.metrics[2].heating_or_cooling.mode = "heating"

\* a returned list with the records of two heating sets of different periods
TwoHeatingRecords ==
    /\ Calculating
    /\ ret.status = "ok"
    /\ Len(DetectedHeating) = 2
    /\ ret.metrics[Len(ret.metrics)].heating_or_cooling
            # ret.metrics[Len(ret.metrics) - 1].heating_or_cooling

(***************************************************************************)
(* The fit against its starting guess                                      *)
(***************************************************************************)
FitMode == IF call.op = "get_heating_demand" THEN "heating" ELSE "cooling"

FitDailyRuntime ==
    DailyRuntime(IF FitMode = "heating" THEN t.heat_runtime_daily
                 ELSE t.cool_runtime_daily,
                 call.core_day_set)

FitDeltaT == CoreDaySetDeltaT(t, call.core_day_set)

\* the sum of the squared residuals at the fitted tau: the returned mean
\* squared error times the number of residuals
FittedSumOfSquares(mse, n) ==
    IF mse.nan THEN NaNValue ELSE Value(<<mse.val[1] * n, mse.val[2]>>)

\* x <= y of two floats; a comparison with NaN is false
NotGreater(x, y) ==
    /\ ~x.nan
    /\ ~y.nan
    /\ ~LessFraction(y.val[1], y.val[2], x.val[1], x.val[2])

RECURSIVE Flat(_)
Flat(xss) == IF xss = <<>> THEN <<>> ELSE Head(xss) \o Flat(Tail(xss))

\* a core day set with at least one day whose hourly temperature
\* differences are not all the same
NonDegenerateInput(hours, daily_runtime) ==
    /\ Len(daily_runtime) >= 1
    /\ \E i \in DOMAIN hours : hours[i] # hours[1]

NonDegenerate == NonDegenerateInput(Flat(FitDeltaT), FitDailyRuntime)

\* the sum of the squared residuals estimate_errors(0) of the set fitted
SumOfSquaresAtStart == SumOfSquaresAt(FitDeltaT, FitMode, FitDailyRuntime, 0)

FittedAgainst(fitted, start) ==
    [fitted |-> fitted, start |-> start,
     numeric |-> ~start.nan, not_greater |-> NotGreater(fitted, start),
     better |-> Better(fitted, start)]

\* the two sums of squares of a fit of a non-degenerate set
FitAgainstStart ==
    FittedAgainst(FittedSumOfSquares(ret.demand.mse, Len(FitDailyRuntime)),
                  SumOfSquaresAtStart)

NotWorseThanNumericStart(fit) == fit.numeric => fit.not_greater

HourOfYearCalled ==
    call.op \in {"get_baseline_hourly_heating_demand",
                 "get_baseline_hourly_cooling_demand"}

\* the rows of the hourly regional baseline table
HoursPerYear == 365 * HoursPerDay

\* C18: the hour-of-year index is always in 1..8760, and in a leap year a
\* timestamp of a date other than Feb 29 gets the hour_of_year of the same
\* month, day and hour of a non-leap year
C18_HourOfYearSkipsFeb29 ==
    HourOfYearCalled =>
        /\ ret.value.val[1] \in 1..HoursPerYear
        /\ (IsLeap(raw.year) /\ ~(raw.month = 2 /\ raw.day = 29)) =>
            \A y \in Years :
                ~IsLeap(y) =>
                    ret.value.val[1] = HourOfYear(y, raw.month, raw.day, raw.hour)

\* the index stays within the rows of the table
HourOfYearInRange ==
    HourOfYearCalled => ret.value.val[1] \in 1..HoursPerYear

(***************************************************************************)
(* The auxiliary / emergency stage                                         *)
(***************************************************************************)
HeatingRecords ==
    SelectSeq(ret.metrics, LAMBDA o : o.heating_or_cooling.mode = "heating")

DiagnosticReads == {i \in DOMAIN ret.trace : ret.trace[i].op # "write"}

AllThree(th) == th.has_auxiliary /\ th.has_emergency /\ th.has_resistance_heat

\* C16: the auxiliary / emergency stage is entered for a heating core day
\* set only when the thermostat has auxiliary, emergency and resistance
\* heat; a thermostat that lacks one of the three skips the stage, and the
\* calculation still returns the heating records, without RHU fields
C16_StageNeedsAllThree ==
    (Calculating /\ MethodsUsable) =>
        /\ DiagnosticReads # {} => AllThree(t)
        /\ ~AllThree(t) =>
            /\ ret.status = "ok"
            /\ Len(HeatingRecords) = Len(DetectedHeating)
            /\ \A k \in DOMAIN HeatingRecords :
                ~HeatingRecords[k].additional_outputs.updated

\* the write of the scratch fields that a use of them at position i sees
LastWrite(trace, i) ==
    CHOOSE j \in 0..(i - 1) :
        /\ j > 0 => trace[j].op = "write"
        /\ \A l \in (j + 1)..(i - 1) : trace[l].op # "write"

SeesOwnFit(trace, metrics, i, j) ==
    /\ j > 0
    /\ trace[j].set = trace[i].set
    /\ trace[j].heating_demand = trace[i].heating_demand
    /\ trace[j].tau = trace[i].tau
    /\ \A k \in DOMAIN metrics :
        metrics[k].heating_or_cooling = trace[i].set =>
            trace[i].tau = Float(metrics[k].tau)

\* C19: every read of heating_demand and tau by the diagnostics of a
\* heating core day set S comes after the fit of S wrote them and before
\* a write for another set, and sees the values the fit of S wrote
C19_DiagnosticsReadOwnFit ==
    Calculating =>
        \A i \in DiagnosticReads :
            SeesOwnFit(ret.trace, ret.metrics, i, LastWrite(ret.trace, i))

\* the diagnostics of two heating core day sets with different demands
C19_Witness ==
    /\ Calculating
    /\ ret.status = "ok"
    /\ \E i, j \in DiagnosticReads :
        /\ ret.trace[i].set # ret.trace[j].set
        /\ ret.trace[i].heating_demand # ret.trace[j].heating_demand

\* C20: after construction only heating_demand and tau of the record
\* change: every other field, the time series and the baseline tables
\* among them, is what the constructor left
C20_OnlyScratchFieldsChange ==
    phase = "ready" =>
        [t EXCEPT !.heating_demand = None, !.tau = None] = NewThermostat(raw)

(***************************************************************************)
(* Core day sets: windows, bounds and the two modes                        *)
(***************************************************************************)
FirstDay == DayDate(t, 1)

LastDay == DayDate(t, Len(t.temperature_in) \div HoursPerDay)

QualifiesFor(mode, d) ==
    IF mode = "heating"
    THEN Qualifies(t.heat_runtime_daily, t.has_cooling, t.cool_runtime_daily, d)
    ELSE Qualifies(t.cool_runtime_daily, t.has_heating, t.heat_runtime_daily, d)

DetectedMode == IF call.op = "get_core_heating_days" THEN "heating" ELSE "cooling"

DataDays == 1..(Len(t.temperature_in) \div HoursPerDay)

\* the 12-month windows that can hold a day of the data
WindowYears == (YearOf(FirstDay) - 2)..(YearOf(LastDay) + 2)

WindowName(mode, y) ==
    IF mode = "heating" THEN YearsName(mode, y, y + 1) ELSE YearsName(mode, y, y)

WindowStart(mode, y) == IF mode = "heating" THEN Date(y, 7, 1) ELSE Date(y, 1, 1)

WindowEnd(mode, y) ==
    IF mode = "heating" THEN Date(y + 1, 7, 1) ELSE Date(y + 1, 1, 1)

\* day d lies in the window of year y, clipped to the first and the last
\* day of the data; the clipped window is right-open as every window is
InClippedWindow(mode, y, d) ==
    /\ DayDate(t, d) >= MaxOf(WindowStart(mode, y), FirstDay)
    /\ DayDate(t, d) < MinOf(WindowEnd(mode, y), LastDay)

Emitted(name) == \E k \in DOMAIN ret.sets : ret.sets[k].name = name

EntireDatasetMask ==
    IF DetectedMode = "heating"
    THEN CoreHeatingDays(t, "entire_dataset", call.min_minutes,
                         call.max_minutes).sets[1].daily
    ELSE CoreCoolingDays(t, "entire_dataset", call.min_minutes,
                         call.max_minutes).sets[1].daily

PeriodSetsOf(d) == {k \in DOMAIN ret.sets : ret.sets[k].daily[d]}

\* C26: the True days of the sets a period-based detection returns are the
\* True days of the entire_dataset set of the same mode and thresholds:
\* every qualifying day of the data, the first and the last one included,
\* is True in exactly one period set
C26_PeriodSetsCoverEntireDataset ==
    PeriodDetected =>
        \A d \in DataDays :
            /\ EntireDatasetMask[d] <=> PeriodSetsOf(d) # {}
            /\ EntireDatasetMask[d] => Cardinality(PeriodSetsOf(d)) = 1

\* C27: in every core day set that a detector returns, whatever the
\* method, every day that is True in the daily mask lies in
\* [start_date, end_date)
C27_TrueDaysInsideBounds ==
    (HeatingDetected \/ CoolingDetected) =>
        \A k \in DOMAIN ret.sets : \A d \in DOMAIN ret.sets[k].daily :
            ret.sets[k].daily[d] =>
                /\ ret.sets[k].start_date <= DateIn(ret.sets[k], d)
                /\ DateIn(ret.sets[k], d) < ret.sets[k].end_date

DisjointSets(heating, cooling) ==
    \A j \in DOMAIN heating : \A k \in DOMAIN cooling :
        \A d \in DOMAIN heating[j].daily :
            ~(heating[j].daily[d] /\ cooling[k].daily[d])

\* thresholds whose minimum of the primary runtime exceeds the maximum of
\* the secondary runtime
SeparatingThresholds == {th \in Thresholds : th[1] > th[2] /\ th[2] >= 0}

SeparatingCall ==
    /\ t.has_heating /\ t.has_cooling
    /\ <<call.min_minutes, call.max_minutes>> \in SeparatingThresholds

\* C30: on a thermostat that heats and cools no day is True both in a
\* heating and in a cooling core day set, whatever the methods, when each
\* detector is called with a minimum of its primary runtime above its
\* maximum of the secondary runtime, itself at least 0
C30_HeatingAndCoolingDisjoint ==
    /\ (HeatingDetected /\ SeparatingCall) =>
        \A m \in CoolingMethods, th \in SeparatingThresholds :
            DisjointSets(ret.sets, CoreCoolingDays(t, m, th[1], th[2]).sets)
    /\ (CoolingDetected /\ SeparatingCall) =>
        \A m \in HeatingMethods, th \in SeparatingThresholds :
            DisjointSets(CoreHeatingDays(t, m, th[1], th[2]).sets, ret.sets)

\* a record with a heating day, a cooling day and a day on which both ran
C30_Witness ==
    /\ HeatingDetected /\ SeparatingCall
    /\ \E k \in DOMAIN ret.sets : AnyTrue(ret.sets[k].daily)
    /\ AnyTrue(CoreCoolingDays(t, "entire_dataset", call.min_minutes,
                               call.max_minutes).sets[1].daily)
    /\ \E d \in DOMAIN t.heat_runtime_daily :
        /\ Ge(t.heat_runtime_daily[d], call.min_minutes)
        /\ Ge(t.cool_runtime_daily[d], call.min_minutes)

(***************************************************************************)
(* Resistance heat utilization: RHU2 against RHU1, and the range of rhu    *)
(***************************************************************************)
TotalRuntimeOfBin(b) ==
    SumOfBin(call.runtime_temp, call.bins, b, "heat_runtime")
        + SumOfBin(call.runtime_temp, call.bins, b, "aux_runtime")
        + SumOfBin(call.runtime_temp, call.bins, b, "emg_runtime")

\* the table of the same runtime_temp and bins without min_runtime_minutes
Rhu1 == RuntimeRhu(call.runtime_temp, call.bins, 0)

Rhu2Called ==
    /\ BinsCalled /\ ret.status = "ok"
    /\ call.min_runtime_minutes = VAR_MIN_RHU_RUNTIME

\* C23: for the same core heating day set and bins, the rhu of RHU2
\* (min_runtime_minutes = 1800) is the rhu of RHU1 in every bin whose total
\* runtime (heat + auxiliary + emergency) is at least 1800 minutes, and NaN
\* in every bin whose total runtime is below 1800 minutes
C23_Rhu2IsRhu1OrNaN ==
    Rhu2Called =>
        \A b \in DOMAIN ret.rhu :
            IF TotalRuntimeOfBin(b) >= VAR_MIN_RHU_RUNTIME
            THEN ret.rhu[b].rhu = Rhu1[b].rhu
            ELSE ret.rhu[b].rhu = NaNValue

\* a table with a bin of 1920 minutes, whose rhu is a number in RHU1 and in
\* RHU2, and a bin of less than 1800 minutes whose rhu is a number in RHU1
C23_Witness ==
    /\ Rhu2Called
    /\ \E b \in DOMAIN ret.rhu :
        /\ TotalRuntimeOfBin(b) >= VAR_MIN_RHU_RUNTIME
        /\ ~ret.rhu[b].rhu.nan
    /\ \E b \in DOMAIN ret.rhu :
        /\ TotalRuntimeOfBin(b) < VAR_MIN_RHU_RUNTIME
        /\ ~Rhu1[b].rhu.nan
        /\ ret.rhu[b].rhu.nan

InUnitInterval(x) ==
    x.nan \/ (x.val[2] > 0 /\ 0 <= x.val[1] /\ x.val[1] <= x.val[2])

\* C29: with runtimes that are not negative, the rhu of every bin that
\* get_resistance_heat_utilization_bins returns is NaN or a number from 0
\* to 1, with and without min_runtime_minutes
C29_RhuInUnitInterval ==
    (BinsCalled /\ ret.status = "ok") =>
        \A b \in DOMAIN ret.rhu : InUnitInterval(ret.rhu[b].rhu)

\* a table with a bin whose auxiliary runtime exceeds the heat runtime
\* (NaN), a bin whose rhu lies strictly between 0 and 1, and a bin of no
\* auxiliary and no emergency runtime (rhu 0)
C29_Witness ==
    /\ BinsCalled /\ ret.status = "ok"
    /\ \E b \in DOMAIN ret.rhu : Nonsense(b) /\ ret.rhu[b].rhu.nan
    /\ \E b \in DOMAIN ret.rhu :
        /\ ~ret.rhu[b].rhu.nan
        /\ 0 < ret.rhu[b].rhu.val[1]
        /\ ret.rhu[b].rhu.val[1] < ret.rhu[b].rhu.val[2]

(***************************************************************************)
(* Denominators that sum to zero                                           *)
(***************************************************************************)
IsZero(x) == ~x.none /\ ~x.nan /\ x.val[1] = 0 /\ x.val[2] # 0

Infinite(x) == ~x.none /\ ~x.nan /\ x.val[2] = 0

\* the savings of one baseline track: NaN, and not an infinity, over a
\* mean baseline runtime of zero
SavingsRecovered(fields) ==
    /\ ~Infinite(fields.percent_savings)
    /\ IsZero(fields.baseline_daily_mean_core_day_runtime) =>
        fields.percent_savings.nan

\* C22: a denominator that sums to zero gives NaN, never an exception or
\* an infinity: alpha is NaN when the summed demand is zero, cvrmse is NaN
\* when the mean daily runtime is zero, percent_savings is NaN when the
\* mean baseline runtime is zero, and the other fields of the record are
\* still produced
C22_ZeroDenominatorIsNaN ==
    /\ (DemandCalled /\ call.core_day_set.daily # <<>>) =>
        /\ ret.status = "ok"
        /\ SumSeq(ret.demand.demand) = 0 => ret.demand.alpha.nan
        /\ SumLenient(FitDailyRuntime) = 0 => ret.demand.cvrmse.nan
        /\ ~Infinite(ret.demand.cvrmse)
    /\ (Calculating /\ MethodsUsable /\ ~AllThree(t)) =>
        /\ ret.status = "ok"
        /\ \A k \in DOMAIN ret.metrics :
            /\ SavingsRecovered(ret.metrics[k].baseline_percentile)
            /\ SavingsRecovered(ret.metrics[k].baseline_regional)

(***************************************************************************)
(* The resistance heat metrics called on their own                         *)
(***************************************************************************)
MetricsCalled == call.op \in {"get_rh_metrics_daily", "get_rh_metrics_hourly"}

SigmoidNames ==
    {"mu_estimate", "sigma_estimate", "sigmoid_model_error", "sigmoid_integral"}

\* the mapping get_rh_metrics_daily returns on the same arguments when the
\* solver returns
DailyWhenSolved ==
    RhMetricsDailyValue(t, call.bins, call.core_day_set, call.rhu_baseline,
                        "returns").rh_metrics

\* C25: fit_sigmoid_model does not raise: when the least-squares solve
\* throws, mu_estimate, sigma_estimate, sigmoid_model_error and
\* sigmoid_integral are None, and the enclosing metrics function still
\* returns, with the dnru and dnru_reduction it computed
C25_SigmoidFailureIsNone ==
    (MetricsCalled /\ AllThree(t) /\ t.heating_demand # None) =>
        /\ ret.status = "ok"
        /\ (ret.rh_metrics # NaNMetrics /\ call.solve = "raises") =>
            /\ \A f \in SigmoidNames : ret.rh_metrics[f] = NoneValue
            /\ ~ret.rh_metrics.dnru.none
            /\ ~ret.rh_metrics.dnru_reduction.none
            /\ call.op = "get_rh_metrics_daily" =>
                /\ ret.rh_metrics.dnru = DailyWhenSolved.dnru
                /\ ret.rh_metrics.dnru_reduction = DailyWhenSolved.dnru_reduction

\* a daily call after a fit in which the solver throws on a finite
\* residual: the sigmoid estimates are None next to a dnru that is a number
C25_Witness ==
    /\ call.op = "get_rh_metrics_daily"
    /\ call.solve = "raises"
    /\ ret.status = "ok"
    /\ ret.rh_metrics.mu_estimate = NoneValue
    /\ ~ret.rh_metrics.dnru.nan /\ ret.rh_metrics.dnru.val[2] # 0
    /\ ret.rh_metrics.dnru.val[1] # 0
    /\ \A f \in SigmoidNames : DailyWhenSolved[f] = SomeFloat

\* C28: get_rh_metrics_daily and get_rh_metrics_hourly called on a record
\* whose heating_demand and tau no fit has written (both None) return
\* their all-NaN mapping and do not raise, whatever the runtimes of the
\* core day set
C28_UnfittedMetricsAreNaN ==
    (MetricsCalled /\ AllThree(t) /\ t.heating_demand = None /\ t.tau = None) =>
        /\ ret.status = "ok"
        /\ ret.rh_metrics = NaNMetrics


(***************************************************************************)
(* The baseline tracks and the fit of their core day set                   *)
(***************************************************************************)
\* the sets of the returned records, the cooling sets first
DetectedSets == DetectedCooling \o DetectedHeating

RuntimeOfSet(core_day_set) ==
    DailyRuntime(IF core_day_set.name.mode = "heating" THEN t.heat_runtime_daily
                 ELSE t.cool_runtime_daily, core_day_set)

TableOfSet(core_day_set) ==
    IF core_day_set.name.mode = "heating" THEN t.hourly_temperature_baseline_heating
    ELSE t.hourly_temperature_baseline_cooling

\* the statistics of the record are those of one result d of the fit
SameFit(o, d) ==
    /\ o.tau = d.tau
    /\ o.alpha = d.alpha
    /\ o.mean_sq_err = d.mse
    /\ o.root_mean_sq_err = d.rmse
    /\ o.cv_root_mean_sq_err = d.cvrmse
    /\ o.mean_abs_pct_err = d.mape
    /\ o.mean_abs_err = d.mae

\* the record holds the result of the fit at its own tau
FittedOnce(o, s, daily_runtime) ==
    SameFit(o, FitDemand(t, s, s.name.mode, daily_runtime, o.tau).demand)

\* the fields of the three tracks are those of the baseline demand at the
\* tau of the record and of the baseline runtime at its alpha
TracksUseTheFit(o, s, daily_runtime) ==
    /\ o.baseline_percentile =
        BaselineFieldsOf(BaselineDemand(t, s, s.name.mode,
                                        o.baseline_percentile_comfort_temperature, o.tau),
                         o.alpha, daily_runtime)
    /\ ~o.regional_average_baseline_comfort_temperature.none =>
        o.baseline_regional =
            BaselineFieldsOf(BaselineDemand(t, s, s.name.mode,
                                            o.regional_average_baseline_comfort_temperature,
                                            o.tau),
                             o.alpha, daily_runtime)
    /\ o.baseline_hourly_regional =
        BaselineFieldsOf(BaselineHourlyDemand(t, s, s.name.mode, TableOfSet(s), o.tau),
                         o.alpha, daily_runtime)

TracksAwayFromStart(o, s) ==
    /\ ~IsNaN(o.tau)
    /\ o.tau # 0
    /\ ~o.alpha.nan
    /\ ~o.baseline_percentile.percent_savings.nan
    /\ ~o.baseline_regional.percent_savings.none
    /\ ~o.baseline_regional.percent_savings.nan
    /\ ~o.baseline_hourly_regional.percent_savings.nan
    /\ o.baseline_hourly_regional
            # HourlyRegionalBaselineAtStart(t, s, s.name.mode, o, RuntimeOfSet(s),
                                            TableOfSet(s))

====
